---------------------------- MODULE Spec2Model ----------------------------
(***************************************************************************)
(* Model of the Parkinson symptom detector: the FFT engine                 *)
(* (FFTProcessor.cpp), the symptom pipeline (SymptomDetector.cpp) and the  *)
(* acquisition loop (main.cpp).                                            *)
(*                                                                         *)
(* Numbers.  The program computes in single-precision float.  The model    *)
(* computes in fixed point: a float v is the integer round(v * One), so    *)
(* 0.25f is 250 and 1.0f is 1000.  A variance (a mean of squared           *)
(* differences) is kept in the squared unit, so 0.01f is 10000.  Products  *)
(* are rescaled with RDiv, which rounds to nearest as float does.  Arrays  *)
(* are sequences; At(a, i) reads the element the source writes a[i].       *)
(***************************************************************************)
EXTENDS Integers, Sequences, FiniteSets, TLC

----------------------------------------------------------------------------
(* Fixed-point arithmetic                                                  *)

\* 1.0f
One == 1000

\* a / b rounded to the nearest integer, halves away from zero (b > 0)
RDiv(a, b) == IF a >= 0 THEN (2 * a + b) \div (2 * b)
                        ELSE -((2 * (-a) + b) \div (2 * b))

AbsInt(a) == IF a < 0 THEN -a ELSE a

Max2(a, b) == IF a < b THEN b ELSE a

Min2(a, b) == IF b < a THEN b ELSE a

\* w, once v has been evaluated: statements run in order, so an array is
\* complete before the loops that read it start (an array is otherwise
\* evaluated where a loop first reads it, inside the loop's own evaluation)
After(v, w) == IF v = v THEN w ELSE w

\* zero-based read of an array held as a sequence
At(a, i) == a[i + 1]

RECURSIVE SqrtSearch(_, _, _)
\* the largest r in lo .. lo + 16 * step - 1 with r * r <= x, found one
\* hexadecimal digit at a time (r stays below 2^15.5, so r * r fits 32 bits)
SqrtSearch(x, lo, step) ==
    IF step = 0 THEN lo
    ELSE LET fits(k) == /\ lo + k * step <= 46340
                        /\ (lo + k * step) * (lo + k * step) <= x
         IN  SqrtSearch(x, lo + step * Cardinality({ k \in 1..15 : fits(k) }),
                        step \div 16)

\* sqrt of a value in the squared unit, in the plain unit
Sqrt(x) == SqrtSearch(x, 0, 4096)

RECURSIVE SumRange(_, _, _)
\* s[lo] + ... + s[hi], summed by halves to keep the evaluation shallow
SumRange(s, lo, hi) ==
    IF lo > hi THEN 0
    ELSE IF lo = hi THEN s[lo]
    ELSE LET mid == (lo + hi) \div 2
         IN  SumRange(s, lo, mid) + SumRange(s, mid + 1, hi)

\* s[1] + ... + s[n]
SumTo(s, n) == After(s, SumRange(s, 1, n))

----------------------------------------------------------------------------
(* FFTProcessor                                                            *)

\* cos(2 pi j / 256) for j = 0..64, in units of 1/One
CosQ == << 1000, 1000, 999, 997, 995, 992, 989, 985, 981, 976, 970, 964,
           957, 950, 942, 933, 924, 914, 904, 893, 882, 870, 858, 845,
           831, 818, 803, 788, 773, 757, 741, 724, 707, 690, 672, 653,
           634, 615, 596, 576, 556, 535, 514, 493, 471, 450, 428, 405,
           383, 360, 337, 314, 290, 267, 243, 219, 195, 171, 147, 122,
           98, 74, 49, 25, 0 >>

\* the table's resolution: the largest transform length the model computes
TableLen == 256

Cos256(j) == IF j <= 64 THEN CosQ[j + 1] ELSE -CosQ[128 - j + 1]

Sin256(j) == IF j <= 64 THEN CosQ[64 - j + 1] ELSE CosQ[j - 64 + 1]

\* std::polar(1.0f, -2 pi k / n) for a power of two n <= TableLen, k < n / 2
Polar(k, n) == LET j == (k * TableLen) \div n
               IN  << Cos256(j), -Sin256(j) >>

CAdd(a, b) == << a[1] + b[1], a[2] + b[2] >>

CSub(a, b) == << a[1] - b[1], a[2] - b[2] >>

CMul(a, b) == << RDiv(a[1] * b[1] - a[2] * b[2], One),
                 RDiv(a[1] * b[2] + a[2] * b[1], One) >>

\* std::abs of a complex number
CAbs(a) == Sqrt(a[1] * a[1] + a[2] * a[2])

RECURSIVE NextPow2From(_, _)
NextPow2From(pow2, n) == IF pow2 < n THEN NextPow2From(pow2 * 2, n) ELSE pow2

\* int pow2 = 1; while (pow2 < n) pow2 *= 2;
NextPow2(n) == NextPow2From(1, n)

\* a padding that repeats the last sample
PaddedHold(x, n, pow2) ==
    [i \in 1..pow2 |-> IF i <= n THEN x[i] ELSE x[n]] \o << >>

\* padded[0..pow2): x[0..n) followed by zeros
Padded(x, n, pow2) ==
    [i \in 1..pow2 |-> IF i <= n THEN x[i] ELSE << 0, 0 >>] \o << >>

\* even[i] = x[i * 2], for i in [0, h)
Evens(x, h) == [i \in 1..h |-> At(x, (i - 1) * 2)] \o << >>

\* odd[i] = x[i * 2 + 1], for i in [0, h)
Odds(x, h) == [i \in 1..h |-> At(x, (i - 1) * 2 + 1)] \o << >>

\* x[0..n) after the butterfly loop over the transformed halves
Butterflies(even, odd, n) ==
    LET h == n \div 2
        t(k) == CMul(Polar(k, n), At(odd, k))
    IN  [i \in 1..n |->
            IF i <= h THEN CAdd(At(even, i - 1), t(i - 1))
                      ELSE CSub(At(even, i - 1 - h), t(i - 1 - h))] \o << >>

RECURSIVE fft(_, _)
\* the contents of x[0..n) after fft(x, n)
fft(x, n) ==
    IF n <= 1 THEN x
    ELSE IF NextPow2(n) # n
    THEN SubSeq(fft(Padded(x, n, NextPow2(n)), NextPow2(n)), 1, n)
    ELSE After(x,
               LET even == fft(Evens(x, n \div 2), n \div 2)
                   odd == fft(Odds(x, n \div 2), n \div 2)
               IN  After(<< even, odd >>, Butterflies(even, odd, n)))

\* fftResult after process(data, size, samplingFreq)
process(data, size) ==
    fft([i \in 1..size |-> << data[i], 0 >>] \o << >>, size)

\* the frequency (bin * samplingFreq) / size, kept as the exact fraction
getFrequency(bin, samplingFreq, size) == << bin * samplingFreq, size >>

\* freq >= hz and freq <= hz on the exact fraction
FreqGE(freq, hz) == freq[1] >= hz * freq[2]

FreqLE(freq, hz) == freq[1] <= hz * freq[2]

getMagnitude(fftResult, fftSize, bin) ==
    IF bin >= 0 /\ bin < fftSize THEN CAbs(At(fftResult, bin)) ELSE 0

----------------------------------------------------------------------------
(* SymptomDetector                                                         *)

\* the arrays the caller passes to analyze
InputArrays == { "accelX", "accelY", "accelZ", "gyroX", "gyroY", "gyroZ" }

\* a float* is an array of the memory and an offset into it
Ptr(name, offset) == << name, offset >>

\* p + k
PtrAdd(p, k) == << p[1], p[2] + k >>

\* p[i]
Rd(mem, p, i) == mem[p[1]][p[2] + i + 1]

\* the memory after the array called name is (re)written as arr
Store(mem, name, arr) == (name :> arr) @@ mem

\* thresholds and weights of the detector, in the model's units
TremorMinHz == 3

TremorMaxHz == 5

DyskMinHz == 5

DyskMaxHz == 7

BgMinHz == 0

BgMaxHz == 2

SampleHz == 52

DetectThreshold == 250

BgRatio == 1200

PeakWeight == 800

AvgWeight == 200

BandNorm == 1200

CadenceMin == 300

FreezeVarMax == 10000

FreezeDrop == 500

FogIntVar == 5000

StepK == 500

\* the window length analyzeGait divides the step count by: 3.0f seconds
GaitSeconds == 3

\* sqrt(x*x + y*y + z*z)
Magnitude3(x, y, z) == Sqrt(x * x + y * y + z * z)

\* a test that leaves out the bins at the very limits of the band
InBandExclusive(i, size, minFreq, maxFreq) ==
    LET freq == getFrequency(i, SampleHz, size)
    IN  ~FreqLE(freq, minFreq) /\ ~FreqGE(freq, maxFreq)

\* the test of calculateIntensity's loop on bin i
InBand(i, size, minFreq, maxFreq) ==
    LET freq == getFrequency(i, SampleHz, size)
    IN  FreqGE(freq, minFreq) /\ FreqLE(freq, maxFreq)

RECURSIVE BandLoop(_, _, _, _, _, _)
\* what the loop of calculateIntensity accumulates over bins lo..hi:
\* << maxEnergy, totalEnergy, count >> (max and + are folded by halves)
BandLoop(fftResult, size, minFreq, maxFreq, lo, hi) ==
    IF lo > hi THEN << 0, 0, 0 >>
    ELSE IF lo = hi
    THEN IF InBand(lo, size, minFreq, maxFreq)
         THEN LET magnitude == getMagnitude(fftResult, size, lo)
              IN  << Max2(0, magnitude), magnitude, 1 >>
         ELSE << 0, 0, 0 >>
    ELSE LET mid == (lo + hi) \div 2
             a == BandLoop(fftResult, size, minFreq, maxFreq, lo, mid)
             b == BandLoop(fftResult, size, minFreq, maxFreq, mid + 1, hi)
         IN  << Max2(a[1], b[1]), a[2] + b[2], a[3] + b[3] >>

\* a combination that forgets the cap at 1
CombineEnergyUncapped(maxEnergy, totalEnergy, count) ==
    LET avgEnergy == RDiv(totalEnergy, count)
        combinedEnergy == RDiv(maxEnergy * PeakWeight + avgEnergy * AvgWeight, One)
    IN  RDiv(combinedEnergy * One, BandNorm)

\* min(1.0f, (maxEnergy * 0.8f + avgEnergy * 0.2f) / 1.2f)
CombineEnergy(maxEnergy, totalEnergy, count) ==
    LET avgEnergy == RDiv(totalEnergy, count)
        combinedEnergy == RDiv(maxEnergy * PeakWeight + avgEnergy * AvgWeight, One)
    IN  Min2(One, RDiv(combinedEnergy * One, BandNorm))

\* calculateIntensity(data, size, minFreq, maxFreq), one axis
calculateIntensity1(data, size, minFreq, maxFreq) ==
    LET fftResult == process(data, size)
        acc == BandLoop(fftResult, size, minFreq, maxFreq, 0, size \div 2 - 1)
    IN  After(fftResult,
              IF acc[3] = 0 THEN 0 ELSE CombineEnergy(acc[1], acc[2], acc[3]))

\* calculateIntensity(dataX, dataY, dataZ, size, minFreq, maxFreq), three axes
calculateIntensity(dataX, dataY, dataZ, size, minFreq, maxFreq) ==
    LET intensityX == calculateIntensity1(dataX, size, minFreq, maxFreq)
        intensityY == calculateIntensity1(dataY, size, minFreq, maxFreq)
        intensityZ == calculateIntensity1(dataZ, size, minFreq, maxFreq)
    IN  Max2(intensityX, Max2(intensityY, intensityZ))

\* the mean of s[from+1 .. from+n], as the accumulate-and-divide loops compute it
MeanOf(s, from, n) == RDiv(SumTo([i \in 1..n |-> s[from + i]] \o << >>, n), n)

\* the mean of squared differences from m over s[from+1 .. from+n]
VarOf(s, from, n, m) ==
    RDiv(SumTo([i \in 1..n |-> (s[from + i] - m) * (s[from + i] - m)] \o << >>, n), n)

\* calculateVariance(x, y, z, size) over the arrays the pointers address
calculateVariance(mem, x, y, z, size) ==
    LET magnitude == [i \in 1..size |->
                         Magnitude3(Rd(mem, x, i - 1), Rd(mem, y, i - 1),
                                    Rd(mem, z, i - 1))] \o << >>
        mean == MeanOf(magnitude, 0, size)
    IN  VarOf(magnitude, 0, size, mean)

\* a FOG rule that does not look at the gyroscope
detectFOGAccelOnly(mem, aX, aY, aZ, gX, gY, gZ, size, cadence) ==
    LET thirdSize == size \div 3
        accelVarianceFirst == calculateVariance(mem, aX, aY, aZ, thirdSize)
        accelVarianceLast ==
            calculateVariance(mem, PtrAdd(aX, 2 * thirdSize),
                              PtrAdd(aY, 2 * thirdSize),
                              PtrAdd(aZ, 2 * thirdSize), thirdSize)
        wasWalking == cadence > CadenceMin
        isFrozen == accelVarianceLast < FreezeVarMax
        suddenStop == accelVarianceLast * One < accelVarianceFirst * FreezeDrop
    IN  wasWalking /\ isFrozen /\ suddenStop

\* a rule whose last segment is the last size/3 samples of the window
detectFOGTrailingThird(mem, aX, aY, aZ, gX, gY, gZ, size, cadence) ==
    LET thirdSize == size \div 3
        accelVarianceFirst == calculateVariance(mem, aX, aY, aZ, thirdSize)
        accelVarianceLast ==
            calculateVariance(mem, PtrAdd(aX, size - thirdSize),
                              PtrAdd(aY, size - thirdSize),
                              PtrAdd(aZ, size - thirdSize), thirdSize)
        gyroVarianceLast ==
            calculateVariance(mem, PtrAdd(gX, size - thirdSize),
                              PtrAdd(gY, size - thirdSize),
                              PtrAdd(gZ, size - thirdSize), thirdSize)
        wasWalking == cadence > CadenceMin
        isFrozen == accelVarianceLast < FreezeVarMax
                    /\ gyroVarianceLast < FreezeVarMax
        suddenStop == accelVarianceLast * One < accelVarianceFirst * FreezeDrop
    IN  wasWalking /\ isFrozen /\ suddenStop

\* a FOG rule that does not ask whether the patient was walking
detectFOGAnyCadence(mem, aX, aY, aZ, gX, gY, gZ, size, cadence) ==
    LET thirdSize == size \div 3
        accelVarianceFirst == calculateVariance(mem, aX, aY, aZ, thirdSize)
        accelVarianceLast ==
            calculateVariance(mem, PtrAdd(aX, 2 * thirdSize),
                              PtrAdd(aY, 2 * thirdSize),
                              PtrAdd(aZ, 2 * thirdSize), thirdSize)
        gyroVarianceLast ==
            calculateVariance(mem, PtrAdd(gX, 2 * thirdSize),
                              PtrAdd(gY, 2 * thirdSize),
                              PtrAdd(gZ, 2 * thirdSize), thirdSize)
        isFrozen == accelVarianceLast < FreezeVarMax
                    /\ gyroVarianceLast < FreezeVarMax
        suddenStop == accelVarianceLast * One < accelVarianceFirst * FreezeDrop
    IN  isFrozen /\ suddenStop

\* detectFOG(accelX, accelY, accelZ, gyroX, gyroY, gyroZ, size), reading cadence
detectFOG(mem, aX, aY, aZ, gX, gY, gZ, size, cadence) ==
    LET thirdSize == size \div 3
        accelVarianceFirst == calculateVariance(mem, aX, aY, aZ, thirdSize)
        accelVarianceLast ==
            calculateVariance(mem, PtrAdd(aX, 2 * thirdSize),
                              PtrAdd(aY, 2 * thirdSize),
                              PtrAdd(aZ, 2 * thirdSize), thirdSize)
        gyroVarianceLast ==
            calculateVariance(mem, PtrAdd(gX, 2 * thirdSize),
                              PtrAdd(gY, 2 * thirdSize),
                              PtrAdd(gZ, 2 * thirdSize), thirdSize)
        wasWalking == cadence > CadenceMin
        isFrozen == accelVarianceLast < FreezeVarMax
                    /\ gyroVarianceLast < FreezeVarMax
        suddenStop == accelVarianceLast * One < accelVarianceFirst * FreezeDrop
    IN  wasWalking /\ isFrozen /\ suddenStop

\* an intensity that grows with the variance instead of falling with it
calculateFOGIntensityRising(accelMagnitude, size) ==
    LET half == size \div 2
        meanHalf == MeanOf(accelMagnitude, half, size - half)
        varianceHalf == VarOf(accelMagnitude, half, size - half, meanHalf)
    IN  Min2(One, Max2(0, RDiv(varianceHalf * One, FogIntVar)))

\* an intensity taken from the variance of the entire window
calculateFOGIntensityWhole(accelMagnitude, size) ==
    LET mean == MeanOf(accelMagnitude, 0, size)
        variance == VarOf(accelMagnitude, 0, size, mean)
    IN  Min2(One, Max2(0, RDiv((FogIntVar - variance) * One, FogIntVar)))

\* calculateFOGIntensity(accelMagnitude, size)
calculateFOGIntensity(accelMagnitude, size) ==
    LET half == size \div 2
        meanHalf == MeanOf(accelMagnitude, half, size - half)
        varianceHalf == VarOf(accelMagnitude, half, size - half, meanHalf)
    IN  Min2(One, Max2(0, RDiv((FogIntVar - varianceHalf) * One, FogIntVar)))

\* wasAbove when the peak loop of detectSteps reaches index i: false at the
\* first index, then isAbove of the index before
WasAbove(accelMagnitude, threshold, i) ==
    IF i = 1 THEN FALSE ELSE At(accelMagnitude, i - 1) > threshold

\* the test of the peak loop of detectSteps at index i
StepPeak(accelMagnitude, threshold, i) ==
    LET isAbove == At(accelMagnitude, i) > threshold
    IN  isAbove /\ ~WasAbove(accelMagnitude, threshold, i)
        /\ At(accelMagnitude, i) > At(accelMagnitude, i - 1)
        /\ At(accelMagnitude, i) > At(accelMagnitude, i + 1)

RECURSIVE StepLoop(_, _, _, _)
\* the steps the peak loop of detectSteps counts over indices lo..hi
StepLoop(accelMagnitude, threshold, lo, hi) ==
    IF lo > hi THEN 0
    ELSE IF lo = hi
    THEN IF StepPeak(accelMagnitude, threshold, lo) THEN 1 ELSE 0
    ELSE LET mid == (lo + hi) \div 2
         IN  StepLoop(accelMagnitude, threshold, lo, mid)
             + StepLoop(accelMagnitude, threshold, mid + 1, hi)

\* detectSteps(accelMagnitude, size)
detectSteps(accelMagnitude, size) ==
    LET mean == MeanOf(accelMagnitude, 0, size)
        stdDev == Sqrt(VarOf(accelMagnitude, 0, size, mean))
        threshold == mean + RDiv(stdDev * StepK, One)
    IN  After(threshold, StepLoop(accelMagnitude, threshold, 1, size - 2))

\* the accelMagnitude array analyze and analyzeGait both build
MagnitudeArray(mem, aX, aY, aZ, size) ==
    [i \in 1..size |-> Magnitude3(Rd(mem, aX, i - 1), Rd(mem, aY, i - 1),
                                  Rd(mem, aZ, i - 1))] \o << >>

\* the value analyzeGait(accelX, accelY, accelZ, size) assigns to cadence
analyzeGait(mem, aX, aY, aZ, size) ==
    LET steps == detectSteps(MagnitudeArray(mem, aX, aY, aZ, size), size)
    IN  RDiv(steps * One, GaitSeconds)

\* SymptomResults results = {false, 0.0f, false, 0.0f, false, 0.0f};
NoResults ==
    [ tremorDetected |-> FALSE, tremorIntensity |-> 0,
      dyskinesiaDetected |-> FALSE, dyskinesiaIntensity |-> 0,
      fogDetected |-> FALSE, fogIntensity |-> 0 ]

\* the buffers analyze allocates for the DC-removed copies
processedX == "processedX"

processedY == "processedY"

\* a DC removal that writes Z back into the caller's array
processedZInPlace == "accelZ"

processedZ == "processedZ"

\* an analyze that evaluates the FOG rule before it recomputes the cadence
FOGThenGait(mem, p, windowSize, cadence0) ==
    LET cadence1 == analyzeGait(mem, p.accelX, p.accelY, p.accelZ, windowSize)
    IN  << cadence1,
           detectFOG(mem, p.accelX, p.accelY, p.accelZ,
                     p.gyroX, p.gyroY, p.gyroZ, windowSize, cadence0) >>

\* steps 5 and 6 of analyze: analyzeGait assigns cadence, then detectFOG reads
\* it: << cadence after the call, fogDetected >>
GaitThenFOG(mem, p, windowSize, cadence0) ==
    LET cadence1 == analyzeGait(mem, p.accelX, p.accelY, p.accelZ, windowSize)
    IN  << cadence1,
           detectFOG(mem, p.accelX, p.accelY, p.accelZ,
                     p.gyroX, p.gyroY, p.gyroZ, windowSize, cadence1) >>

\* a detection that compares with the threshold only
BandAboveThreshold(intensity, backgroundNoise) == intensity > DetectThreshold

\* a detection that compares with the background only
BandAboveBackground(intensity, backgroundNoise) ==
    intensity * One > backgroundNoise * BgRatio

\* steps 3 and 4 of analyze: a band is detected when its intensity is above
\* 0.25f and above 1.2f times the background
BandDetected(intensity, backgroundNoise) ==
    intensity > DetectThreshold /\ intensity * One > backgroundNoise * BgRatio

\* an analyze that subtracts nothing from the samples
DCOffsetNone(sum, windowSize) == 0

\* meanX /= windowSize: the DC component of an axis whose samples add up to sum
DCOffset(sum, windowSize) == RDiv(sum, windowSize)

\* analyze(accelX, accelY, accelZ, gyroX, gyroY, gyroZ, windowSize), called
\* with the six pointers p on memory mem while the detector's cadence is
\* cadence0: the results returned, the cadence left, the caller's arrays left
analyze(mem, p, windowSize, cadence0) ==
    LET meanX == DCOffset(SumTo([i \in 1..windowSize |-> Rd(mem, p.accelX, i - 1)]
                                \o << >>, windowSize), windowSize)
        meanY == DCOffset(SumTo([i \in 1..windowSize |-> Rd(mem, p.accelY, i - 1)]
                                \o << >>, windowSize), windowSize)
        meanZ == DCOffset(SumTo([i \in 1..windowSize |-> Rd(mem, p.accelZ, i - 1)]
                                \o << >>, windowSize), windowSize)
        mX == Store(mem, processedX,
                    [i \in 1..windowSize |-> Rd(mem, p.accelX, i - 1) - meanX]
                    \o << >>)
        mY == Store(mX, processedY,
                    [i \in 1..windowSize |-> Rd(mem, p.accelY, i - 1) - meanY]
                    \o << >>)
        m1 == Store(mY, processedZ,
                    [i \in 1..windowSize |-> Rd(mem, p.accelZ, i - 1) - meanZ]
                    \o << >>)
        accelMagnitude == MagnitudeArray(m1, p.accelX, p.accelY, p.accelZ, windowSize)
        tremorIntensity ==
            calculateIntensity(m1[processedX], m1[processedY], m1[processedZ],
                               windowSize, TremorMinHz, TremorMaxHz)
        backgroundNoise ==
            calculateIntensity(m1[processedX], m1[processedY], m1[processedZ],
                               windowSize, BgMinHz, BgMaxHz)
        dyskinesiaIntensity ==
            calculateIntensity(m1[processedX], m1[processedY], m1[processedZ],
                               windowSize, DyskMinHz, DyskMaxHz)
        gaitFog == GaitThenFOG(m1, p, windowSize, cadence0)
    IN  After(<< m1, accelMagnitude >>,
        [ results |->
            [ tremorDetected |-> BandDetected(tremorIntensity, backgroundNoise),
              tremorIntensity |-> tremorIntensity,
              dyskinesiaDetected |-> BandDetected(dyskinesiaIntensity, backgroundNoise),
              dyskinesiaIntensity |-> dyskinesiaIntensity,
              fogDetected |-> gaitFog[2],
              fogIntensity |-> calculateFOGIntensity(accelMagnitude, windowSize) ],
          cadence |-> gaitFog[1],
          mem |-> [n \in DOMAIN mem |-> m1[n]] ])

----------------------------------------------------------------------------
(* The array accesses of analyze and its helpers                            *)

\* the accesses of indices lo..hi of a buffer of the given length, each as
\* << length, index >>
Touch(length, lo, hi) == { << length, i >> : i \in lo..hi }

\* a peak loop that runs up to the last sample
detectStepsAccessesToEnd(size) ==
    Touch(size, 0, size - 1)
    \cup UNION { { << size, i - 1 >>, << size, i >>, << size, i + 1 >> } :
                 i \in 1..(size - 1) }

\* detectSteps: accelMagnitude[i] for i in [0, size) in the two loops of
\* the threshold, and [i-1], [i], [i+1] for i in [1, size - 1) in the peak loop
detectStepsAccesses(size) ==
    Touch(size, 0, size - 1)
    \cup UNION { { << size, i - 1 >>, << size, i >>, << size, i + 1 >> } :
                 i \in 1..(size - 2) }

\* calculateVariance(x + offset, ..., size) on arrays of length n: x[i] of
\* the caller's arrays and magnitude[i] of its own buffer, for i in [0, size)
calculateVarianceAccesses(n, offset, size) ==
    Touch(n, offset, offset + size - 1) \cup Touch(size, 0, size - 1)

\* detectFOG: the first third, and the third that starts at 2 * thirdSize
detectFOGAccesses(size) ==
    LET thirdSize == size \div 3
    IN  calculateVarianceAccesses(size, 0, thirdSize)
        \cup calculateVarianceAccesses(size, 2 * thirdSize, thirdSize)

\* calculateFOGIntensity: accelMagnitude[i] for i in [size / 2, size)
calculateFOGIntensityAccesses(size) == Touch(size, size \div 2, size - 1)

RECURSIVE fftAccesses(_)
\* fft(x, n): the copies into and out of padded[pow2], or the split into
\* even[n/2] and odd[n/2], the two recursive calls and the butterflies
fftAccesses(n) ==
    IF n <= 1 THEN {}
    ELSE IF NextPow2(n) # n
    THEN LET pow2 == NextPow2(n)
         IN  Touch(n, 0, n - 1) \cup Touch(pow2, 0, pow2 - 1)
             \cup fftAccesses(pow2)
    ELSE LET h == n \div 2
         IN  Touch(h, 0, h - 1)
             \cup { << n, i * 2 >> : i \in 0..(h - 1) }
             \cup { << n, i * 2 + 1 >> : i \in 0..(h - 1) }
             \cup fftAccesses(h)
             \cup { << n, k >> : k \in 0..(h - 1) }
             \cup { << n, k + h >> : k \in 0..(h - 1) }

\* calculateIntensity on one axis: process copies data[i] into
\* fftResult[size] and transforms it, then the band loop reads bin i of
\* fftResult for i in [0, size / 2)
calculateIntensityAccesses(size) ==
    Touch(size, 0, size - 1) \cup fftAccesses(size)
    \cup Touch(size, 0, size \div 2 - 1)

\* analyze(…, windowSize): the loops of the mean, of the DC removal and of
\* the magnitude over [0, windowSize), then the helpers
analyzeAccesses(windowSize) ==
    Touch(windowSize, 0, windowSize - 1)
    \cup calculateIntensityAccesses(windowSize)
    \cup detectStepsAccesses(windowSize)
    \cup detectFOGAccesses(windowSize)
    \cup calculateFOGIntensityAccesses(windowSize)

----------------------------------------------------------------------------
(* BLEManager                                                              *)

\* (uint8_t)(intensity * 255)
IntensityByte(intensity) == ((intensity * 255) \div One) % 256

\* the six characteristic bytes updateCharacteristics assigns
updateCharacteristics(r) ==
    [ tremorStatus |-> IF r.tremorDetected THEN 1 ELSE 0,
      tremorIntensityByte |-> IntensityByte(r.tremorIntensity),
      dyskinesiaStatus |-> IF r.dyskinesiaDetected THEN 1 ELSE 0,
      dyskinesiaIntensityByte |-> IntensityByte(r.dyskinesiaIntensity),
      fogStatus |-> IF r.fogDetected THEN 1 ELSE 0,
      fogIntensityByte |-> IntensityByte(r.fogIntensity) ]

\* the three characteristics of the symptom service
Characteristics == { "tremor", "dyskinesia", "fog" }

\* the member a characteristic is created on and written from: &tremorStatus,
\* &dyskinesiaStatus, &fogStatus
StatusOf(bytes, c) ==
    CASE c = "tremor" -> bytes.tremorStatus
      [] c = "dyskinesia" -> bytes.dyskinesiaStatus
      [] c = "fog" -> bytes.fogStatus

\* gattServer().write(handle of c, &status, 1), which may succeed or report
\* an error and leave the attribute as it was
gattWrite(server, c, bytes, ok) ==
    IF ok THEN [server EXCEPT ![c] = << StatusOf(bytes, c) >>] ELSE server

\* the three writes of updateCharacteristics, in their order
gattWrites3(server, bytes, ok) ==
    gattWrite(gattWrite(gattWrite(server, "tremor", bytes, ok["tremor"]),
                        "dyskinesia", bytes, ok["dyskinesia"]),
              "fog", bytes, ok["fog"])

\* the attributes of a GATT server the service was never added to
NoGatt == [c \in Characteristics |-> << >>]

\* the attributes once begin() has added the service: one byte each, the
\* value of the member at that time
GattInitial(bytes) == [c \in Characteristics |-> << StatusOf(bytes, c) >>]

\* the bytes the BLEManager constructor sets
NoBytes ==
    [ tremorStatus |-> 0, tremorIntensityByte |-> 0,
      dyskinesiaStatus |-> 0, dyskinesiaIntensityByte |-> 0,
      fogStatus |-> 0, fogIntensityByte |-> 0 ]

----------------------------------------------------------------------------
(* State                                                                   *)

VARIABLES
    accelX, accelY, accelZ,   \* main.cpp: the accelerometer buffers
    gyroX, gyroY, gyroZ,      \* main.cpp: the gyroscope buffers
    sampleIndex,              \* main.cpp: current position in the buffers
    cadence,                  \* SymptomDetector::cadence
    results,                  \* the SymptomResults analyze returned last
    bleBytes,                 \* BLEManager: the six characteristic bytes
    bleInitialized,           \* BLEManager::initialized
    sensorReady,              \* SensorManager: lsm6dsl != nullptr
    pc,                       \* where the caller stands
    acquired,                 \* samples read from the sensor so far
    nAnalyzed,                \* calls of analyze so far
    nPublished,               \* calls of updateCharacteristics so far
    scenario,                 \* which signal the sensor sees
    cadenceAtCall,            \* the cadence held when the call whose results are held began
    gatt,                     \* the value of each characteristic in the GATT server
    gattWrites,               \* calls of gattServer().write so far
    simulationMode,           \* SensorManager::simulationMode
    simulatedData,            \* SensorManager::simulatedData
    nativeTestMode,           \* the build defines NATIVE_TEST_MODE
    clockMs,                  \* gettimeofday, in ms since the SensorManager was made
    timerStart,               \* Timer::startTime of the generator's timer
    randState,                \* the state of rand()
    written,                  \* the values setSimulationData was called with
    address,                  \* LSM6DSL::_address
    bus,                      \* the register accesses made over I2C so far
    initOk,                   \* what LSM6DSL::init() returned
    drivers,                  \* LSM6DSL objects made so far
    frames,                   \* the calls of FFTProcessor::fft under way
    live,                     \* the buffers fft allocated and has not freed
    allocated,                \* buffers fft allocated so far
    padSteps,                 \* times fft zero-padded its input so far
    rootN                     \* the n of the outermost call of fft

vars == << accelX, accelY, accelZ, gyroX, gyroY, gyroZ, sampleIndex, cadence,
           results, bleBytes, bleInitialized, sensorReady, pc, acquired,
           nAnalyzed, nPublished, scenario, cadenceAtCall, gatt, gattWrites,
           simulationMode, simulatedData, nativeTestMode, clockMs, timerStart,
           randState, written, address, bus, initOk, drivers,
           frames, live, allocated, padSteps, rootN >>

\* the state of a call of fft that is followed frame by frame
transform == << frames, live, allocated, padSteps, rootN >>

\* the state of the simulated sensor and of the test program's generators
simulator == << simulationMode, simulatedData, nativeTestMode, clockMs,
                timerStart, randState, written >>

\* the state of the LSM6DSL driver and of its bus
driver == << address, bus, initOk, drivers >>

buffers == << accelX, accelY, accelZ, gyroX, gyroY, gyroZ >>

\* the caller's six arrays as the memory analyze works on
Memory ==
    [ accelX |-> accelX, accelY |-> accelY, accelZ |-> accelZ,
      gyroX |-> gyroX, gyroY |-> gyroY, gyroZ |-> gyroZ ]

\* the six pointers main and the tests pass to analyze
BufferPtrs == [n \in InputArrays |-> Ptr(n, 0)]

----------------------------------------------------------------------------
(* Signals                                                                 *)

\* cos(2 pi j / 256) for j = 0..255
CosFull(j) == IF j <= 128 THEN Cos256(j) ELSE Cos256(256 - j)

\* sample i of a cosine of the given period (in samples, a power of two) and
\* amplitude
Tone(i, period, amplitude) ==
    RDiv(amplitude * CosFull(((i * TableLen) \div period) % TableLen), One)

----------------------------------------------------------------------------
(* main: the acquisition loop                                              *)

WINDOW_SIZE == 156

\* how many windows the loop is followed for
MaxWindows == 2

\* the signals the sensor may see are numbered 0..MaxScenario
MaxScenario == 1

\* SensorData data = {0, 0, 0, 0, 0, 0};
ZeroData ==
    [ accelX |-> 0, accelY |-> 0, accelZ |-> 0,
      gyroX |-> 0, gyroY |-> 0, gyroZ |-> 0 ]

\* what the IMU measures at its n-th reading under signal sc: an oscillation
\* of 3.25 Hz whose amplitude grows with sc, gravity on Z, a slow rotation
SensorSignal(sc, n) ==
    [ accelX |-> Tone(n, 16, 150 * sc),
      accelY |-> Tone(n + 4, 16, 150 * sc),
      accelZ |-> One + (n % 3),
      gyroX |-> n % 7,
      gyroY |-> 0,
      gyroZ |-> n ]

\* 0.5 * sin(2 pi 2 i / 52) and 0.5 * sin(2 pi 2 i / 52 + pi / 2) over the one
\* period of 26 samples
WalkX ==
    << 0, 120, 232, 332, 411, 468, 496, 496, 468, 411, 332, 232, 120,
       0, -120, -232, -332, -411, -468, -496, -496, -468, -411, -332, -232,
       -120 >>

WalkY ==
    << 500, 485, 443, 374, 284, 177, 60, -60, -177, -284, -374, -443, -485,
       -500, -485, -443, -374, -284, -177, -60, 60, 177, 284, 374, 443, 485 >>

\* 0.2 * sin(2 pi 4 i / 52) and 0.2 * sin(2 pi 4 i / 52 + pi / 4) over the one
\* period of 13 samples
TremX == << 0, 93, 165, 199, 187, 133, 48, -48, -133, -187, -199, -165, -93 >>

TremY == << 141, 191, 197, 157, 82, -12, -103, -171, -200, -182, -123, -36, 60 >>

\* the sample at which the walk stops: half of a window
FreezeStart == 78

\* sample n of a walk that freezes: a 2 Hz oscillation on X and Y, then
\* stillness, gravity on Z, no rotation
FOGMotion(n) ==
    [ accelX |-> IF n < FreezeStart THEN WalkX[(n % Len(WalkX)) + 1] ELSE 10,
      accelY |-> IF n < FreezeStart THEN WalkY[(n % Len(WalkY)) + 1] ELSE 10,
      accelZ |-> One, gyroX |-> 0, gyroY |-> 0, gyroZ |-> 0 ]

\* sample n of a 4 Hz tremor on X and Y, gravity on Z, no rotation
TremorMotion(n) ==
    [ accelX |-> TremX[(n % Len(TremX)) + 1],
      accelY |-> TremY[(n % Len(TremY)) + 1],
      accelZ |-> One, gyroX |-> 0, gyroY |-> 0, gyroZ |-> 0 ]

\* besides the signals 0..MaxScenario the sensor may see the walk that
\* freezes and the 4 Hz tremor
FreezeScenario == -1

TremorScenario == -2

Scenarios == (0..MaxScenario) \cup { FreezeScenario, TremorScenario }

\* what the IMU measures at its n-th reading under each of them
Motion(sc, n) ==
    IF sc = FreezeScenario THEN FOGMotion(n)
    ELSE IF sc = TremorScenario THEN TremorMotion(n)
    ELSE SensorSignal(sc, n)

\* the reading during which the I2C bus does not answer
GlitchReading == 160

\* the I2C transfers of the n-th reading fail: never under signal 0, at one
\* reading under the others
I2cFails(sc, n) == sc > 0 /\ n = GlitchReading

\* LSM6DSL::read16BitRegister: the register pair, or 0 if a transfer fails
read16BitRegister(ok, raw) == IF ok THEN raw ELSE 0

\* LSM6DSL::readAccel and readGyro at the n-th reading: each axis is what
\* read16BitRegister returned, and both report success
readAxes(sc, n) ==
    LET s == Motion(sc, n)
        ok == ~I2cFails(sc, n)
    IN  [ accelX |-> read16BitRegister(ok, s.accelX),
          accelY |-> read16BitRegister(ok, s.accelY),
          accelZ |-> read16BitRegister(ok, s.accelZ),
          gyroX |-> read16BitRegister(ok, s.gyroX),
          gyroY |-> read16BitRegister(ok, s.gyroY),
          gyroZ |-> read16BitRegister(ok, s.gyroZ) ]

\* SensorManager::read() at the n-th reading
read(ready, sc, n) == IF ready THEN readAxes(sc, n) ELSE ZeroData

\* a loop that takes the buffer for full one sample early
WindowFullEarly(index) == index >= WINDOW_SIZE - 1

\* a loop that takes the buffer for full one sample late
WindowFullLate(index) == index > WINDOW_SIZE

\* if (sampleIndex >= WINDOW_SIZE)
WindowFull(index) == index >= WINDOW_SIZE

\* a loop that advances sampleIndex before it stores
PutNext(a, index, value) == [a EXCEPT ![index + 2] = value]

\* a[index] = value
Put(a, index, value) == [a EXCEPT ![index + 1] = value]

\* main.cpp and the callers of the detector leave the simulated sensor as
\* the SensorManager constructor made it
SimulatorIdle ==
    /\ simulationMode = FALSE
    /\ simulatedData = ZeroData
    /\ nativeTestMode = FALSE
    /\ clockMs = 0
    /\ timerStart = 0
    /\ randState = 1
    /\ written = << >>

\* no call of fft is followed frame by frame
TransformIdle ==
    /\ frames = << >>
    /\ live = {}
    /\ allocated = 0
    /\ padSteps = 0
    /\ rootN = 0

\* no driver is followed
DriverIdle ==
    /\ address = 0
    /\ bus = << >>
    /\ initOk = FALSE
    /\ drivers = 0

Init ==
    /\ accelX = [i \in 1..WINDOW_SIZE |-> 0]
    /\ accelY = [i \in 1..WINDOW_SIZE |-> 0]
    /\ accelZ = [i \in 1..WINDOW_SIZE |-> 0]
    /\ gyroX = [i \in 1..WINDOW_SIZE |-> 0]
    /\ gyroY = [i \in 1..WINDOW_SIZE |-> 0]
    /\ gyroZ = [i \in 1..WINDOW_SIZE |-> 0]
    /\ sampleIndex = 0
    /\ cadence = 0
    /\ results = NoResults
    /\ bleBytes = NoBytes
    /\ bleInitialized = FALSE
    /\ sensorReady = FALSE
    /\ pc = "boot"
    /\ acquired = 0
    /\ nAnalyzed = 0
    /\ nPublished = 0
    /\ scenario \in Scenarios
    /\ cadenceAtCall = 0
    /\ gatt = NoGatt
    /\ gattWrites = 0
    /\ SimulatorIdle
    /\ DriverIdle
    /\ TransformIdle

\* SensorManager::begin(): initHardware(); return true;
SensorManagerBegin(found) == TRUE

\* main up to the loop: sensorManager.begin() and the return of -1 if it
\* fails, symptomDetector.begin(), bleManager.begin() (whose failure is only
\* logged)
Boot ==
    /\ pc = "boot"
    /\ \E found \in BOOLEAN, up \in BOOLEAN :
           /\ sensorReady' = found
           /\ IF ~SensorManagerBegin(found)
              THEN /\ pc' = "exit"
                   /\ UNCHANGED << cadence, bleInitialized, gatt >>
              ELSE /\ cadence' = 0
                   /\ bleInitialized' = up
                   /\ gatt' = IF up THEN GattInitial(bleBytes) ELSE NoGatt
                   /\ pc' = "poll"
    /\ UNCHANGED << buffers, sampleIndex, results, bleBytes, acquired,
                    nAnalyzed, nPublished, scenario, cadenceAtCall,
                    gattWrites >>
    /\ UNCHANGED << simulator, driver, transform >>

\* a pass of the loop before the sampling interval has elapsed
PollIdle ==
    /\ pc = "poll"
    /\ nAnalyzed < MaxWindows
    /\ pc' = "yield"
    /\ UNCHANGED << buffers, sampleIndex, cadence, results, bleBytes,
                    bleInitialized, sensorReady, acquired, nAnalyzed,
                    nPublished, scenario,
                    cadenceAtCall, gatt, gattWrites >>
    /\ UNCHANGED << simulator, driver, transform >>

\* a pass of the loop once the interval has elapsed: read one sample, store
\* it at sampleIndex, advance, and wrap when the buffer is full
PollSample ==
    /\ pc = "poll"
    /\ nAnalyzed < MaxWindows
    /\ LET data == read(sensorReady, scenario, acquired)
           next == sampleIndex + 1
       IN  /\ accelX' = Put(accelX, sampleIndex, data.accelX)
           /\ accelY' = Put(accelY, sampleIndex, data.accelY)
           /\ accelZ' = Put(accelZ, sampleIndex, data.accelZ)
           /\ gyroX' = Put(gyroX, sampleIndex, data.gyroX)
           /\ gyroY' = Put(gyroY, sampleIndex, data.gyroY)
           /\ gyroZ' = Put(gyroZ, sampleIndex, data.gyroZ)
           /\ IF WindowFull(next)
              THEN sampleIndex' = 0 /\ pc' = "analyze"
              ELSE sampleIndex' = next /\ pc' = "yield"
    /\ acquired' = acquired + 1
    /\ UNCHANGED << cadence, results, bleBytes, bleInitialized, sensorReady,
                    nAnalyzed, nPublished, scenario,
                    cadenceAtCall, gatt, gattWrites >>
    /\ UNCHANGED << simulator, driver, transform >>

\* symptomDetector.analyze(accelX, ..., gyroZ, WINDOW_SIZE)
Analyze ==
    /\ pc = "analyze"
    /\ \E a \in { analyze(Memory, BufferPtrs, WINDOW_SIZE, cadence) } :
           /\ accelX' = a.mem.accelX
           /\ accelY' = a.mem.accelY
           /\ accelZ' = a.mem.accelZ
           /\ gyroX' = a.mem.gyroX
           /\ gyroY' = a.mem.gyroY
           /\ gyroZ' = a.mem.gyroZ
           /\ cadence' = a.cadence
           /\ results' = a.results
           /\ cadenceAtCall' = cadence
    /\ nAnalyzed' = nAnalyzed + 1
    /\ pc' = "publish"
    /\ UNCHANGED << sampleIndex, bleBytes, bleInitialized, sensorReady,
                    acquired, nPublished, scenario, gatt, gattWrites >>
    /\ UNCHANGED << simulator, driver, transform >>

\* an update that writes to the GATT server whether or not BLE is initialised
PublishUnguarded ==
    /\ pc = "publish"
    /\ bleBytes' = updateCharacteristics(results)
    /\ \E ok \in [Characteristics -> BOOLEAN] :
           gatt' = gattWrites3(gatt, updateCharacteristics(results), ok)
    /\ gattWrites' = gattWrites + 3
    /\ nPublished' = nPublished + 1
    /\ pc' = "yield"
    /\ UNCHANGED << buffers, sampleIndex, cadence, results, bleInitialized,
                    sensorReady, acquired, nAnalyzed, scenario,
                    cadenceAtCall >>
    /\ UNCHANGED << simulator, driver, transform >>

\* bleManager.updateCharacteristics(results...): the six bytes are assigned,
\* and if BLE is initialised the three status bytes are written to the GATT
\* server, the outcome of each write being ignored
Publish ==
    /\ pc = "publish"
    /\ bleBytes' = updateCharacteristics(results)
    /\ IF bleInitialized
       THEN /\ \E ok \in [Characteristics -> BOOLEAN] :
                   gatt' = gattWrites3(gatt, updateCharacteristics(results), ok)
            /\ gattWrites' = gattWrites + 3
       ELSE UNCHANGED << gatt, gattWrites >>
    /\ nPublished' = nPublished + 1
    /\ pc' = "yield"
    /\ UNCHANGED << buffers, sampleIndex, cadence, results, bleInitialized,
                    sensorReady, acquired, nAnalyzed, scenario,
                    cadenceAtCall >>
    /\ UNCHANGED << simulator, driver, transform >>

\* bleManager.update(); thread_sleep_for(1);
Yield ==
    /\ pc = "yield"
    /\ pc' = "poll"
    /\ UNCHANGED << buffers, sampleIndex, cadence, results, bleBytes,
                    bleInitialized, sensorReady, acquired, nAnalyzed,
                    nPublished, scenario,
                    cadenceAtCall, gatt, gattWrites >>
    /\ UNCHANGED << simulator, driver, transform >>

Next == Boot \/ PollIdle \/ PollSample \/ Analyze \/ Publish \/ Yield

Spec == Init /\ [][Next]_vars

\* the loop keeps running: no call it makes blocks for ever (for analyze,
\* whose step is enabled exactly when pc = "analyze", weak fairness is written
\* with that predicate), and since the timer advances with every pass the
\* sampling interval elapses again and again
SpecLive ==
    /\ Spec
    /\ WF_vars(Boot) /\ WF_vars(Publish) /\ WF_vars(Yield)
    /\ []<>(pc # "analyze")
    /\ SF_vars(PollSample)

----------------------------------------------------------------------------
(* A caller of the detector: the windows analyze is called on               *)

\* a window: six arrays of one length
Window(aX, aY, aZ, gX, gY, gZ) ==
    [ accelX |-> aX, accelY |-> aY, accelZ |-> aZ,
      gyroX |-> gX, gyroY |-> gY, gyroZ |-> gZ ]

Zeros(n) == [i \in 1..n |-> 0]

\* windows of a body at rest or walking: gravity on Z with steps of three
\* sizes, and a gyroscope that is quiet or shaking
GaitLevels == { 1000, 1050, 1300 }

GaitLens == { 6 }

GaitWindow(levels, shaking) ==
    LET n == Len(levels)
    IN  Window(Zeros(n), Zeros(n), levels,
               [i \in 1..n |-> IF shaking /\ i % 2 = 0 THEN 300 ELSE 0],
               Zeros(n), Zeros(n))

GaitWindows ==
    UNION { { GaitWindow(levels, shaking) :
                levels \in [1..n -> GaitLevels], shaking \in BOOLEAN } :
            n \in GaitLens }

\* windows of an oscillating limb: on X the sum of a 1.625 Hz, a 3.25 Hz and
\* a 6.5 Hz cosine (periods of 32, 16 and 8 samples), gravity on Z
ToneLens == { 16, 24, 32 }

BgAmps == { 0, 40, 120 }

TremorAmps == { 0, 12, 40, 120 }

DyskAmps == { 0, 40 }

ToneWindow(n, bg, tr, dy) ==
    Window([i \in 1..n |-> Tone(i - 1, 32, bg) + Tone(i - 1, 16, tr)
                           + Tone(i - 1, 8, dy)],
           Zeros(n), [i \in 1..n |-> One], Zeros(n), Zeros(n), Zeros(n))

ToneWindows ==
    { ToneWindow(n, bg, tr, dy) :
        n \in ToneLens, bg \in BgAmps, tr \in TremorAmps, dy \in DyskAmps }

\* windows of a limb that is already raised when the window opens: three
\* samples of three sizes on Z, then rest
PeakLevels == { 1000, 1200, 1300 }

PeakWindow(a, b, c) ==
    Window(Zeros(6), Zeros(6), << a, b, c, 1000, 1000, 1000 >>,
           Zeros(6), Zeros(6), Zeros(6))

PeakWindows ==
    { PeakWindow(a, b, c) : a \in PeakLevels, b \in PeakLevels, c \in PeakLevels }

\* windows of seven samples, a length that is not a multiple of three: steps
\* of one size on Z, and a gyroscope that is quiet or shaking
StrideLevels == { 1000, 1300 }

StrideLens == { 7 }

StrideWindows ==
    UNION { { GaitWindow(levels, shaking) :
                levels \in [1..n -> StrideLevels], shaking \in BOOLEAN } :
            n \in StrideLens }

\* windows of one second, whose bins 3, 5 and 7 are labelled 3, 5 and 7 Hz:
\* a 3.25 Hz cosine on X, gravity on Z
EdgeLens == { 52 }

EdgeAmps == { 40, 120 }

EdgeWindows == { ToneWindow(n, 0, tr, 0) : n \in EdgeLens, tr \in EdgeAmps }

\* windows of all zeros
ZeroWindow(n) == Window(Zeros(n), Zeros(n), Zeros(n), Zeros(n), Zeros(n), Zeros(n))

ZeroWindows == { ZeroWindow(n) : n \in GaitLens \cup ToneLens }

Windows ==
    GaitWindows \cup ToneWindows \cup PeakWindows \cup StrideWindows
    \cup EdgeWindows
    \cup ZeroWindows

\* the length of the window the caller holds
WindowLen == Len(accelX)

InitDet ==
    /\ accelX = << >> /\ accelY = << >> /\ accelZ = << >>
    /\ gyroX = << >> /\ gyroY = << >> /\ gyroZ = << >>
    /\ sampleIndex = 0
    /\ cadence = 0
    /\ results = NoResults
    /\ bleBytes = NoBytes
    /\ bleInitialized = FALSE
    /\ sensorReady = FALSE
    /\ pc = "idle"
    /\ acquired = 0
    /\ nAnalyzed = 0
    /\ nPublished = 0
    /\ scenario = 0
    /\ cadenceAtCall = 0
    /\ gatt = NoGatt
    /\ gattWrites = 0
    /\ SimulatorIdle
    /\ DriverIdle
    /\ TransformIdle

\* the caller fills its six arrays with a window
DetLoad ==
    /\ pc = "idle"
    /\ \E w \in Windows :
           /\ accelX' = w.accelX /\ accelY' = w.accelY /\ accelZ' = w.accelZ
           /\ gyroX' = w.gyroX /\ gyroY' = w.gyroY /\ gyroZ' = w.gyroZ
    /\ pc' = "loaded"
    /\ UNCHANGED << sampleIndex, cadence, results, bleBytes, bleInitialized,
                    sensorReady, acquired, nAnalyzed, nPublished, scenario,
                    cadenceAtCall, gatt, gattWrites >>
    /\ UNCHANGED << simulator, driver, transform >>

\* detector.analyze(accelX, ..., gyroZ, windowSize) on the window held
DetAnalyze ==
    /\ pc = "loaded"
    /\ \E a \in { analyze(Memory, BufferPtrs, WindowLen, cadence) } :
           /\ accelX' = a.mem.accelX
           /\ accelY' = a.mem.accelY
           /\ accelZ' = a.mem.accelZ
           /\ gyroX' = a.mem.gyroX
           /\ gyroY' = a.mem.gyroY
           /\ gyroZ' = a.mem.gyroZ
           /\ cadence' = a.cadence
           /\ results' = a.results
    /\ cadenceAtCall' = cadence
    /\ pc' = "called"
    /\ UNCHANGED << sampleIndex, bleBytes, bleInitialized, sensorReady,
                    acquired, nAnalyzed, nPublished, scenario,
                    gatt, gattWrites >>
    /\ UNCHANGED << simulator, driver, transform >>

\* the caller has used the results and lets the window go
DetRelease ==
    /\ pc = "called"
    /\ accelX' = << >> /\ accelY' = << >> /\ accelZ' = << >>
    /\ gyroX' = << >> /\ gyroY' = << >> /\ gyroZ' = << >>
    /\ results' = NoResults
    /\ cadenceAtCall' = 0
    /\ pc' = "idle"
    /\ UNCHANGED << sampleIndex, cadence, bleBytes, bleInitialized,
                    sensorReady, acquired, nAnalyzed, nPublished, scenario,
                    gatt, gattWrites >>
    /\ UNCHANGED << simulator, driver, transform >>

\* detector.begin()
DetBegin ==
    /\ pc = "idle"
    /\ cadence' = 0
    /\ UNCHANGED << buffers, sampleIndex, results, bleBytes, bleInitialized,
                    sensorReady, pc, acquired, nAnalyzed, nPublished,
                    scenario, cadenceAtCall, gatt, gattWrites >>
    /\ UNCHANGED << simulator, driver, transform >>

NextDet == DetLoad \/ DetAnalyze \/ DetRelease \/ DetBegin

SpecDet == InitDet /\ [][NextDet]_vars

----------------------------------------------------------------------------
(* LSM6DSL: the driver and its initialisation by initHardware              *)

\* register addresses and I2C addresses of LSM6DSL.h
LSM6DSL_WHO_AM_I == 15

LSM6DSL_CTRL1_XL == 16

LSM6DSL_CTRL2_G == 17

LSM6DSL_CTRL3_C == 18

LSM6DSL_OUTX_L_XL == 40

LSM6DSL_I2C_ADDRESS == 214

LSM6DSL_I2C_ADDRESS_ALT == 212

\* the value init compares whoAmI with
WhoAmIExpected == 106

\* what a device that answers the WHO_AM_I read may send
WhoAmIValues == { 105, 106 }

\* the LSM6DSL objects initHardware makes: one on I2C1, then one on I2C3
MaxDrivers == 2

\* how many register accesses are followed once init has returned true
MaxAccesses == 2

\* one register access as the bus saw it: which object made it, at which
\* I2C address, whether the transfers succeeded and the byte read (0 for a
\* write or a failure)
Access(obj, op, addr, reg, ok, value) ==
    [ obj |-> obj, op |-> op, address |-> addr, reg |-> reg, ok |-> ok,
      value |-> IF ok THEN value ELSE 0 ]

\* an init that goes to the alternate address on a wrong WHO_AM_I value too
TriesAlternateOnMismatch(ok, value, addr) ==
    (~ok \/ value # WhoAmIExpected) /\ addr = LSM6DSL_I2C_ADDRESS

\* if (!readRegister(LSM6DSL_WHO_AM_I, whoAmI)) { if (_address ==
\* LSM6DSL_I2C_ADDRESS) ...
TriesAlternate(ok, value, addr) == ~ok /\ addr = LSM6DSL_I2C_ADDRESS

InitDriver ==
    /\ accelX = << >> /\ accelY = << >> /\ accelZ = << >>
    /\ gyroX = << >> /\ gyroY = << >> /\ gyroZ = << >>
    /\ sampleIndex = 0
    /\ cadence = 0
    /\ results = NoResults
    /\ bleBytes = NoBytes
    /\ bleInitialized = FALSE
    /\ sensorReady = FALSE
    /\ pc = "new"
    /\ acquired = 0
    /\ nAnalyzed = 0
    /\ nPublished = 0
    /\ scenario = 0
    /\ cadenceAtCall = 0
    /\ gatt = NoGatt
    /\ gattWrites = 0
    /\ SimulatorIdle
    /\ DriverIdle
    /\ TransformIdle

\* what the driver's steps leave alone
driverFrame ==
    << buffers, sampleIndex, cadence, results, bleBytes, bleInitialized,
       acquired, nAnalyzed, nPublished, scenario, cadenceAtCall, gatt,
       gattWrites, simulator, transform >>

\* init returns value
InitReturns(value) ==
    /\ initOk' = value
    /\ pc' = "returned"

\* lsm6dsl = new LSM6DSL(i2c); lsm6dsl->init() is entered
DriverNew ==
    /\ pc = "new"
    /\ drivers < MaxDrivers
    /\ drivers' = drivers + 1
    /\ address' = LSM6DSL_I2C_ADDRESS
    /\ initOk' = FALSE
    /\ pc' = "who"
    /\ UNCHANGED << bus, sensorReady, driverFrame >>

\* init: the first read of WHO_AM_I, the switch to the alternate address if
\* it fails, the comparison of the value if it succeeds
InitWhoAmI ==
    /\ pc = "who"
    /\ \E ok \in BOOLEAN, value \in WhoAmIValues :
           /\ bus' = Append(bus, Access(drivers, "read", address,
                                        LSM6DSL_WHO_AM_I, ok, value))
           /\ IF TriesAlternate(ok, value, address)
              THEN /\ address' = LSM6DSL_I2C_ADDRESS_ALT
                   /\ pc' = "whoAlt"
                   /\ UNCHANGED initOk
              ELSE /\ IF ~ok \/ value # WhoAmIExpected
                      THEN InitReturns(FALSE)
                      ELSE pc' = "ctrl1" /\ UNCHANGED initOk
                   /\ UNCHANGED address
    /\ UNCHANGED << drivers, sensorReady, driverFrame >>

\* init: the second read of WHO_AM_I, at the alternate address
InitWhoAmIAlt ==
    /\ pc = "whoAlt"
    /\ \E ok \in BOOLEAN, value \in WhoAmIValues :
           /\ bus' = Append(bus, Access(drivers, "read", address,
                                        LSM6DSL_WHO_AM_I, ok, value))
           /\ IF ~ok \/ value # WhoAmIExpected
              THEN InitReturns(FALSE)
              ELSE pc' = "ctrl1" /\ UNCHANGED initOk
    /\ UNCHANGED << address, drivers, sensorReady, driverFrame >>

\* init: if (!writeRegister(reg, ...)) return false; and what follows
InitWrite(at, reg, then) ==
    /\ pc = at
    /\ \E ok \in BOOLEAN :
           /\ bus' = Append(bus, Access(drivers, "write", address, reg, ok, 0))
           /\ IF ~ok THEN InitReturns(FALSE)
              ELSE IF then = "returned" THEN InitReturns(TRUE)
              ELSE pc' = then /\ UNCHANGED initOk
    /\ UNCHANGED << address, drivers, sensorReady, driverFrame >>

InitCtrl1 == InitWrite("ctrl1", LSM6DSL_CTRL1_XL, "ctrl2")

InitCtrl2 == InitWrite("ctrl2", LSM6DSL_CTRL2_G, "ctrl3")

InitCtrl3 == InitWrite("ctrl3", LSM6DSL_CTRL3_C, "returned")

\* initHardware after a failed init: the object is deleted and, if it was
\* the first, another is made on the other pins; after the second the
\* sensor is given up
DriverFailed ==
    /\ pc = "returned"
    /\ ~initOk
    /\ pc' = IF drivers < MaxDrivers THEN "new" ELSE "none"
    /\ sensorReady' = FALSE
    /\ UNCHANGED << driver, driverFrame >>

\* initHardware after a successful init: lsm6dsl stays
DriverKept ==
    /\ pc = "returned"
    /\ initOk
    /\ pc' = "ready"
    /\ sensorReady' = TRUE
    /\ UNCHANGED << driver, driverFrame >>

\* a later access: readRegister(LSM6DSL_OUTX_L_XL, low) of read16BitRegister
DriverAccess ==
    /\ pc = "ready"
    /\ Cardinality({ i \in DOMAIN bus : bus[i].reg = LSM6DSL_OUTX_L_XL })
           < MaxAccesses
    /\ \E ok \in BOOLEAN, value \in { 0, 255 } :
           bus' = Append(bus, Access(drivers, "read", address,
                                     LSM6DSL_OUTX_L_XL, ok, value))
    /\ UNCHANGED << address, initOk, drivers, pc, sensorReady, driverFrame >>

NextDriver ==
    \/ DriverNew \/ InitWhoAmI \/ InitWhoAmIAlt
    \/ InitCtrl1 \/ InitCtrl2 \/ InitCtrl3
    \/ DriverFailed \/ DriverKept \/ DriverAccess

SpecDriver == InitDriver /\ [][NextDriver]_vars

----------------------------------------------------------------------------
(* main_test.cpp: the test program and the simulated sensor                *)

\* thread_sleep_for(1000 / 52): the milliseconds one pass of a loop takes
SleepMs == 19

\* generateNormalData(sensorManager, 3000) and the three others
DurationMs == 3000

\* Test 1 to Test 4: normal data, tremor, dyskinesia, freezing of gait
NumTests == 4

\* the values time(nullptr) may have when srand is called
Seeds == { 1000, 1003 }

\* rand(): a linear congruential generator stands for the library's
RandNext(state) == (state * 75 + 74) % 65537

\* sin(2 pi j / 256) for j = 0..255
SinFull(j) == CosFull((j + 192) % TableLen)

\* amplitude * sin(2 pi hz timeMs / 1000 + 2 pi phase / 256), the angle
\* rounded to the table's resolution
Sine(amplitude, hz, timeMs, phase) ==
    RDiv(amplitude
         * SinFull((RDiv(TableLen * ((hz * timeMs) % 1000), 1000) + phase)
                   % TableLen),
         One)

\* the sample a generator passes to setSimulationData at timeMs of its
\* timer: r1, r2, r3 are the three values rand() returns to generateNormalData
Generated(test, timeMs, r1, r2, r3) ==
    [ accelX |-> IF test = 1 THEN ((r1 % 20) - 10) * 10
                 ELSE IF test = 2 THEN Sine(200, 4, timeMs, 0)
                 ELSE IF test = 3 THEN Sine(300, 6, timeMs, 0)
                 ELSE IF 2 * timeMs < DurationMs THEN Sine(500, 2, timeMs, 0)
                 ELSE 10,
      accelY |-> IF test = 1 THEN ((r2 % 20) - 10) * 10
                 ELSE IF test = 2 THEN Sine(200, 4, timeMs, 32)
                 ELSE IF test = 3 THEN Sine(300, 6, timeMs, 43)
                 ELSE IF 2 * timeMs < DurationMs THEN Sine(500, 2, timeMs, 64)
                 ELSE 10,
      accelZ |-> IF test = 1 THEN One + ((r3 % 10) - 5) * 10 ELSE One,
      gyroX |-> 0, gyroY |-> 0, gyroZ |-> 0 ]

\* SensorManager::read() where no hardware is compiled in or simulation mode
\* is on: with NATIVE_TEST_MODE a 4 Hz signal of its own at the time of the
\* call plus one noise value, otherwise simulatedData plus noise on the
\* accelerometer; r1, r2, r3 are the values rand() returns
readSimulated(mode, native, sim, timeMs, r1, r2, r3) ==
    IF ~mode THEN sim
    ELSE IF native
    THEN LET noise == (r1 % 20) - 10
         IN  [ accelX |-> Sine(100, 4, timeMs, 0) + noise,
               accelY |-> Sine(100, 4, timeMs, 32) + noise,
               accelZ |-> 100 + noise,
               gyroX |-> noise * 10, gyroY |-> noise * 10,
               gyroZ |-> noise * 10 ]
    ELSE [ sim EXCEPT !.accelX = @ + (r1 % 20) - 10,
                      !.accelY = @ + (r2 % 20) - 10,
                      !.accelZ = @ + (r3 % 20) - 10 ]

\* the test that is running
Test == nAnalyzed + 1

\* timer.read_ms() of the generator's timer
TimerMs == clockMs - timerStart

InitTest ==
    /\ accelX = [i \in 1..WINDOW_SIZE |-> 0]
    /\ accelY = [i \in 1..WINDOW_SIZE |-> 0]
    /\ accelZ = [i \in 1..WINDOW_SIZE |-> 0]
    /\ gyroX = [i \in 1..WINDOW_SIZE |-> 0]
    /\ gyroY = [i \in 1..WINDOW_SIZE |-> 0]
    /\ gyroZ = [i \in 1..WINDOW_SIZE |-> 0]
    /\ sampleIndex = 0
    /\ cadence = 0
    /\ results = NoResults
    /\ bleBytes = NoBytes
    /\ bleInitialized = FALSE
    /\ sensorReady = FALSE
    /\ pc = "start"
    /\ acquired = 0
    /\ nAnalyzed = 0
    /\ nPublished = 0
    /\ scenario = 0
    /\ cadenceAtCall = 0
    /\ gatt = NoGatt
    /\ gattWrites = 0
    /\ simulationMode = FALSE
    /\ simulatedData = ZeroData
    /\ nativeTestMode \in BOOLEAN
    /\ clockMs = 0
    /\ timerStart = 0
    /\ randState = 1
    /\ written = << >>
    /\ DriverIdle
    /\ TransformIdle

\* what the test program never touches
testFrame ==
    << bleBytes, sensorReady, acquired, nPublished, scenario, gatt,
       gattWrites, nativeTestMode, driver, transform >>

\* main up to Test 1: srand(time(nullptr)), the three begin() calls and
\* setSimulationMode(true)
TestBoot ==
    /\ pc = "start"
    /\ \E seed \in Seeds : randState' = seed
    /\ simulationMode' = TRUE
    /\ cadence' = 0
    /\ bleInitialized' \in IF nativeTestMode THEN { TRUE } ELSE BOOLEAN
    /\ pc' = "begin"
    /\ UNCHANGED << buffers, sampleIndex, results, nAnalyzed, cadenceAtCall,
                    simulatedData, clockMs, timerStart, written, testFrame >>

\* a generator is entered: its timer starts, and generateNormalData seeds
\* rand() again
GenerateBegin ==
    /\ pc = "begin"
    /\ timerStart' = clockMs
    /\ written' = << >>
    /\ IF Test = 1
       THEN \E seed \in Seeds : seed >= randState /\ randState' = seed
       ELSE UNCHANGED randState
    /\ pc' = "generate"
    /\ UNCHANGED << buffers, sampleIndex, cadence, results, bleInitialized,
                    nAnalyzed, cadenceAtCall, simulationMode, simulatedData,
                    clockMs, testFrame >>

\* one pass of a generator's loop: sensor.setSimulationData(...) with the
\* sample of this moment, then thread_sleep_for(1000 / 52)
Generate ==
    /\ pc = "generate"
    /\ TimerMs < DurationMs
    /\ LET r1 == RandNext(randState)
           r2 == RandNext(r1)
           r3 == RandNext(r2)
           sample == Generated(Test, TimerMs, r1, r2, r3)
       IN  /\ simulatedData' = sample
           /\ written' = Append(written, sample)
           /\ randState' = IF Test = 1 THEN r3 ELSE randState
    /\ clockMs' = clockMs + SleepMs
    /\ UNCHANGED << buffers, sampleIndex, cadence, results, bleInitialized,
                    pc, nAnalyzed, cadenceAtCall, simulationMode, timerStart,
                    testFrame >>

\* the generator returns when its duration has passed
GenerateEnd ==
    /\ pc = "generate"
    /\ TimerMs >= DurationMs
    /\ sampleIndex' = 0
    /\ pc' = "collect"
    /\ UNCHANGED << buffers, cadence, results, bleInitialized, nAnalyzed,
                    cadenceAtCall, simulator, testFrame >>

\* one pass of the collecting loop: data = sensorManager.read(), stored at
\* i, then thread_sleep_for(1000 / 52)
Collect ==
    /\ pc = "collect"
    /\ sampleIndex < WINDOW_SIZE
    /\ LET r1 == RandNext(randState)
           r2 == RandNext(r1)
           r3 == RandNext(r2)
           data == readSimulated(simulationMode, nativeTestMode,
                                 simulatedData, clockMs, r1, r2, r3)
       IN  /\ accelX' = Put(accelX, sampleIndex, data.accelX)
           /\ accelY' = Put(accelY, sampleIndex, data.accelY)
           /\ accelZ' = Put(accelZ, sampleIndex, data.accelZ)
           /\ gyroX' = Put(gyroX, sampleIndex, data.gyroX)
           /\ gyroY' = Put(gyroY, sampleIndex, data.gyroY)
           /\ gyroZ' = Put(gyroZ, sampleIndex, data.gyroZ)
           /\ randState' = IF nativeTestMode THEN r1 ELSE r3
    /\ sampleIndex' = sampleIndex + 1
    /\ clockMs' = clockMs + SleepMs
    /\ UNCHANGED << cadence, results, bleInitialized, pc, nAnalyzed,
                    cadenceAtCall, simulationMode, simulatedData, timerStart,
                    written, testFrame >>

\* results = symptomDetector.analyze(accelX, ..., gyroZ, WINDOW_SIZE), the
\* results printed, and the next test or return 0
TestAnalyze ==
    /\ pc = "collect"
    /\ sampleIndex = WINDOW_SIZE
    /\ \E a \in { analyze(Memory, BufferPtrs, WINDOW_SIZE, cadence) } :
           /\ accelX' = a.mem.accelX
           /\ accelY' = a.mem.accelY
           /\ accelZ' = a.mem.accelZ
           /\ gyroX' = a.mem.gyroX
           /\ gyroY' = a.mem.gyroY
           /\ gyroZ' = a.mem.gyroZ
           /\ cadence' = a.cadence
           /\ results' = a.results
    /\ cadenceAtCall' = cadence
    /\ nAnalyzed' = nAnalyzed + 1
    /\ pc' = IF Test < NumTests THEN "begin" ELSE "done"
    /\ UNCHANGED << sampleIndex, bleInitialized, simulator, testFrame >>

NextTest ==
    TestBoot \/ GenerateBegin \/ Generate \/ GenerateEnd \/ Collect
    \/ TestAnalyze

SpecTest == InitTest /\ [][NextTest]_vars

----------------------------------------------------------------------------
(* FFTProcessor::fft as its calls unfold: frames and buffers               *)

\* the largest n fft is followed for
MaxN == 12

\* delete[] that forgets the buffers
ReleaseNone(heap, bufs) == heap

\* delete[] padded; or delete[] even; delete[] odd;
Release(heap, bufs) == heap \ bufs

\* a call fft(x, n) at a position of its body, with the buffers it has
\* allocated
Frame(n, at, bufs) == [ n |-> n, at |-> at, bufs |-> bufs ]

\* the frame executing
Top == frames[Len(frames)]

\* the stack once the frame executing has returned
Popped == SubSeq(frames, 1, Len(frames) - 1)

\* the stack with the frame executing moved to a position of its body,
\* owning bufs, and a call of fft(_, n) made from there
Called(at, bufs, n) ==
    Append(Append(Popped, Frame(Top.n, at, bufs)), Frame(n, "entry", {}))

InitFft ==
    /\ accelX = << >> /\ accelY = << >> /\ accelZ = << >>
    /\ gyroX = << >> /\ gyroY = << >> /\ gyroZ = << >>
    /\ sampleIndex = 0
    /\ cadence = 0
    /\ results = NoResults
    /\ bleBytes = NoBytes
    /\ bleInitialized = FALSE
    /\ sensorReady = FALSE
    /\ pc = "idle"
    /\ acquired = 0
    /\ nAnalyzed = 0
    /\ nPublished = 0
    /\ scenario = 0
    /\ cadenceAtCall = 0
    /\ gatt = NoGatt
    /\ gattWrites = 0
    /\ SimulatorIdle
    /\ DriverIdle
    /\ TransformIdle

\* what fft leaves alone
fftFrame ==
    << buffers, sampleIndex, cadence, results, bleBytes, bleInitialized,
       sensorReady, acquired, nAnalyzed, nPublished, scenario, cadenceAtCall,
       gatt, gattWrites, simulator, driver >>

\* the frame executing returns: to its caller, or out of the outermost call
Returns ==
    /\ frames' = Popped
    /\ pc' = IF Len(frames) = 1 THEN "returned" ELSE pc

\* fft(x, n) is called from outside
FftCall ==
    /\ pc = "idle"
    /\ \E n \in 0..MaxN :
           /\ rootN' = n
           /\ frames' = << Frame(n, "entry", {}) >>
    /\ live' = {}
    /\ allocated' = 0
    /\ padSteps' = 0
    /\ pc' = "fft"
    /\ UNCHANGED fftFrame

\* if (n <= 1) return;
FftBase ==
    /\ pc = "fft"
    /\ Top.at = "entry"
    /\ Top.n <= 1
    /\ Returns
    /\ UNCHANGED << rootN, live, allocated, padSteps, fftFrame >>

\* if (pow2 != n): padded = new Complex[pow2], filled, and fft(padded, pow2)
FftPad ==
    /\ pc = "fft"
    /\ Top.at = "entry"
    /\ Top.n > 1
    /\ NextPow2(Top.n) # Top.n
    /\ allocated' = allocated + 1
    /\ live' = live \cup { allocated + 1 }
    /\ padSteps' = padSteps + 1
    /\ frames' = Called("padded", { allocated + 1 }, NextPow2(Top.n))
    /\ UNCHANGED << rootN, pc, fftFrame >>

\* back from fft(padded, pow2): the first n bins copied, delete[] padded;
\* return;
FftPadReturn ==
    /\ pc = "fft"
    /\ Top.at = "padded"
    /\ live' = Release(live, Top.bufs)
    /\ Returns
    /\ UNCHANGED << rootN, allocated, padSteps, fftFrame >>

\* n is a power of two: even = new Complex[n / 2], odd = new Complex[n / 2],
\* filled, and fft(even, n / 2)
FftSplit ==
    /\ pc = "fft"
    /\ Top.at = "entry"
    /\ Top.n > 1
    /\ NextPow2(Top.n) = Top.n
    /\ allocated' = allocated + 2
    /\ live' = live \cup { allocated + 1, allocated + 2 }
    /\ frames' = Called("even", { allocated + 1, allocated + 2 }, Top.n \div 2)
    /\ UNCHANGED << rootN, padSteps, pc, fftFrame >>

\* back from fft(even, n / 2): fft(odd, n / 2)
FftOdd ==
    /\ pc = "fft"
    /\ Top.at = "even"
    /\ frames' = Called("odd", Top.bufs, Top.n \div 2)
    /\ UNCHANGED << rootN, live, allocated, padSteps, pc, fftFrame >>

\* back from fft(odd, n / 2): the butterflies, delete[] even; delete[] odd;
FftCombine ==
    /\ pc = "fft"
    /\ Top.at = "odd"
    /\ live' = Release(live, Top.bufs)
    /\ Returns
    /\ UNCHANGED << rootN, allocated, padSteps, fftFrame >>

\* the caller goes on
FftDone ==
    /\ pc = "returned"
    /\ pc' = "idle"
    /\ UNCHANGED << transform, fftFrame >>

\* the steps of a call under way
FftStep ==
    FftBase \/ FftPad \/ FftPadReturn \/ FftSplit \/ FftOdd \/ FftCombine

NextFft == FftCall \/ FftStep \/ FftDone

SpecFft == InitFft /\ [][NextFft]_vars

\* a call under way keeps executing
SpecFftLive == SpecFft /\ WF_vars(FftStep)

----------------------------------------------------------------------------
(* Properties of the acquisition loop (specification Spec)                  *)

\* the number of whole windows among the samples acquired so far
WindowsAcquired == acquired \div WINDOW_SIZE

\* C4: analysis and publication each happen exactly once after every 156th
\* acquired sample, the analysis before the publication.  While the loop is
\* sampling, as many windows have been analysed and as many published as the
\* samples acquired contain; an analysis is pending only right after a
\* 156th sample, with exactly one window not yet analysed; a publication is
\* pending only right after that analysis, with exactly one analysed window
\* not yet published.
C4_OncePerWindow ==
    /\ pc \in { "poll", "yield" } =>
           nAnalyzed = WindowsAcquired /\ nPublished = WindowsAcquired
    /\ pc = "analyze" =>
           /\ acquired > 0 /\ acquired % WINDOW_SIZE = 0
           /\ nAnalyzed = WindowsAcquired - 1 /\ nPublished = nAnalyzed
    /\ pc = "publish" =>
           /\ acquired > 0 /\ acquired % WINDOW_SIZE = 0
           /\ nAnalyzed = WindowsAcquired /\ nPublished = nAnalyzed - 1
    /\ pc = "boot" => acquired = 0 /\ nAnalyzed = 0 /\ nPublished = 0

\* the loop has analysed and published two windows and is sampling again
C4_Witness ==
    /\ pc = "yield"
    /\ nPublished >= 2
    /\ acquired = nPublished * WINDOW_SIZE

\* the sample the buffers hold at position i when window k (from 0) is full
WindowSample(k, i) == read(sensorReady, scenario, k * WINDOW_SIZE + i)

\* C5: when the k-th analysis is about to run, element i of each of the six
\* buffers is acquired sample (k-1)*156 + i: nothing is left over from an
\* earlier window and nothing is skipped.
C5_WindowContents ==
    pc = "analyze" =>
        \A i \in 0..(WINDOW_SIZE - 1) :
            LET s == WindowSample(nAnalyzed, i)
            IN  /\ At(accelX, i) = s.accelX
                /\ At(accelY, i) = s.accelY
                /\ At(accelZ, i) = s.accelZ
                /\ At(gyroX, i) = s.gyroX
                /\ At(gyroY, i) = s.gyroY
                /\ At(gyroZ, i) = s.gyroZ

\* the second window of a moving sensor is full and about to be analysed
C5_Witness ==
    /\ pc = "analyze"
    /\ nAnalyzed = 1
    /\ sensorReady
    /\ scenario > 0
    /\ At(gyroZ, 0) = WINDOW_SIZE

----------------------------------------------------------------------------
(* Properties of analyze (specification SpecDet)                            *)

\* C1: the three intensities analyze returns each lie in the closed
\* interval [0, 1].
C1_IntensitiesInUnit ==
    /\ results.tremorIntensity \in 0..One
    /\ results.dyskinesiaIntensity \in 0..One
    /\ results.fogIntensity \in 0..One

\* a window whose tremor band saturates at 1 while the other two
\* intensities lie strictly inside the interval
C1_Witness ==
    /\ pc = "called"
    /\ results.tremorIntensity = One
    /\ results.dyskinesiaIntensity > 0 /\ results.dyskinesiaIntensity < One
    /\ results.fogIntensity > 0 /\ results.fogIntensity < One

\* C2: when analyze reports tremor its tremor intensity is above 0.25, and
\* when it reports dyskinesia its dyskinesia intensity is above 0.25.
C2_DetectedAboveThreshold ==
    pc = "called" =>
        /\ results.tremorDetected => results.tremorIntensity > DetectThreshold
        /\ results.dyskinesiaDetected =>
               results.dyskinesiaIntensity > DetectThreshold

\* tremor is reported while the dyskinesia band is not empty but is not
\* reported
C2_Witness ==
    /\ pc = "called"
    /\ results.tremorDetected
    /\ ~results.dyskinesiaDetected
    /\ results.dyskinesiaIntensity > 0

\* all six channels of the window held are 0 at every sample
IsZeroWindow ==
    /\ WindowLen > 0
    /\ \A n \in InputArrays : \A i \in 1..WindowLen : Memory[n][i] = 0

\* C3 as stated: for a window of all zeros analyze returns the three
\* intensities 0 and the three flags false.
C3_ZeroWindowAllZero ==
    (pc = "called" /\ IsZeroWindow) =>
        /\ results.tremorIntensity = 0
        /\ results.dyskinesiaIntensity = 0
        /\ results.fogIntensity = 0
        /\ ~results.tremorDetected
        /\ ~results.dyskinesiaDetected
        /\ ~results.fogDetected

\* C3, amended: for a window of all zeros analyze returns tremor and
\* dyskinesia intensity 0, FOG intensity 1 (no variance in the last half),
\* and the three flags false.
C3_ZeroWindow ==
    (pc = "called" /\ IsZeroWindow) =>
        /\ results.tremorIntensity = 0
        /\ results.dyskinesiaIntensity = 0
        /\ results.fogIntensity = One
        /\ ~results.tremorDetected
        /\ ~results.dyskinesiaDetected
        /\ ~results.fogDetected

\* a window of zeros has been analysed by a detector that had found steps
\* in the window before
C3_Witness ==
    /\ pc = "called"
    /\ IsZeroWindow
    /\ cadenceAtCall > 0

\* C6: the results of analyze depend on the window alone: whatever calls
\* of begin and analyze came before, they are the results a detector
\* that has analysed nothing returns on the same window.
C6_HistoryIndependent ==
    pc = "called" =>
        results = analyze(Memory, BufferPtrs, WindowLen, 0).results

\* analyze ran on a detector whose cadence from the window before would
\* have satisfied the FOG rule, on a window without steps whose movement
\* stops
C6_Witness ==
    /\ pc = "called"
    /\ cadenceAtCall > CadenceMin
    /\ cadence = 0
    /\ detectFOG(Memory, BufferPtrs.accelX, BufferPtrs.accelY, BufferPtrs.accelZ,
                 BufferPtrs.gyroX, BufferPtrs.gyroY, BufferPtrs.gyroZ,
                 WindowLen, cadenceAtCall)

\* C7: analyze leaves the six input arrays as they were: every element of
\* accelX/Y/Z and gyroX/Y/Z has the same value after the call as before.
C7_InputsUnchanged ==
    [][ (pc = "loaded" /\ pc' = "called") => buffers' = buffers ]_vars

\* analyze has run on a window whose accelerometer has a DC component to
\* remove and an oscillation to transform
C7_Witness ==
    /\ pc = "called"
    /\ \E i \in 1..WindowLen : accelX[i] # 0
    /\ \A i \in 1..WindowLen : accelZ[i] = One
    /\ results.tremorIntensity > 0

\* an array less its mean: the centered signal
Centered(a) ==
    LET mean == RDiv(SumTo(a, Len(a)), Len(a))
    IN  [i \in 1..Len(a) |-> a[i] - mean] \o << >>

\* the intensity of a band of the centered accelerometer of the window held
BandOfWindow(minHz, maxHz) ==
    calculateIntensity(Centered(accelX), Centered(accelY), Centered(accelZ),
                       WindowLen, minHz, maxHz)

\* C8: for tremor (3-5 Hz) and for dyskinesia (5-7 Hz) the flag is true
\* exactly when the band intensity B is above 0.25 and above 1.2 times
\* T_bg, the intensity reported is B, and both are compared with the one
\* T_bg of the 0-2 Hz band of the centered accelerometer.
C8_BandRule ==
    pc = "called" =>
        LET Tbg == BandOfWindow(BgMinHz, BgMaxHz)
            Bt == BandOfWindow(TremorMinHz, TremorMaxHz)
            Bd == BandOfWindow(DyskMinHz, DyskMaxHz)
        IN  /\ results.tremorIntensity = Bt
            /\ results.dyskinesiaIntensity = Bd
            /\ results.tremorDetected
                   <=> (Bt > DetectThreshold /\ Bt * One > BgRatio * Tbg)
            /\ results.dyskinesiaDetected
                   <=> (Bd > DetectThreshold /\ Bd * One > BgRatio * Tbg)

\* a window whose tremor band passes both comparisons while its dyskinesia
\* band, though above 0.25, fails the comparison with the same background
C8_Witness ==
    /\ pc = "called"
    /\ results.tremorDetected
    /\ results.dyskinesiaIntensity > DetectThreshold
    /\ ~results.dyskinesiaDetected

\* the magnitudes of the accelerometer and of the gyroscope of the window held
AccelMagnitudes ==
    [i \in 1..WindowLen |-> Magnitude3(accelX[i], accelY[i], accelZ[i])] \o << >>

GyroMagnitudes ==
    [i \in 1..WindowLen |-> Magnitude3(gyroX[i], gyroY[i], gyroZ[i])] \o << >>

\* the variance of mag over the k-th segment (k = 0, 1, 2) of floor(N/3)
\* samples
SegmentVariance(mag, k) ==
    LET n == WindowLen \div 3
    IN  VarOf(mag, k * n, n, MeanOf(mag, k * n, n))

\* C9: fogDetected is true if and only if, for the same window, the
\* cadence is above 0.3, V3 < 0.01, G3 < 0.01 and V3 < 0.5 * V1, with V1
\* and V3 the variance of the accelerometer magnitude over the first and
\* the last segment and G3 that of the gyroscope magnitude over the last.
C9_FogRule ==
    pc = "called" =>
        LET V1 == SegmentVariance(AccelMagnitudes, 0)
            V3 == SegmentVariance(AccelMagnitudes, 2)
            G3 == SegmentVariance(GyroMagnitudes, 2)
        IN  results.fogDetected
                <=> /\ cadence > CadenceMin
                    /\ V3 < FreezeVarMax
                    /\ G3 < FreezeVarMax
                    /\ V3 * One < FreezeDrop * V1

\* freezing of gait is reported
C9_Witness ==
    /\ pc = "called"
    /\ results.fogDetected

\* the periods, in samples, of the oscillations whose spectrum is examined
ProbePeriods == { 8 }

\* the window held is a pure oscillation of period p on X that fits the
\* window a whole number of times
IsProbe(p) ==
    /\ WindowLen > 0
    /\ WindowLen % p = 0
    /\ \E a \in DyskAmps \ { 0 } :
           accelX = [i \in 1..WindowLen |-> Tone(i - 1, p, a)]

\* C10: in the spectrum the band estimator reads for an input of length N,
\* bin k holds the component of frequency k * 52 / N.  For a pure
\* oscillation of period p samples (frequency 52/p Hz) over a whole number
\* of periods, the bin labelled 52/p Hz, bin N/p, holds the largest
\* magnitude of the bins read.
C10_BinIsItsFrequency ==
    \A p \in ProbePeriods :
        (pc = "called" /\ IsProbe(p)) =>
            LET N == WindowLen
                spectrum == process(Centered(accelX), N)
                k0 == N \div p
            IN  /\ getFrequency(k0, SampleHz, N)[1] * p
                       = SampleHz * getFrequency(k0, SampleHz, N)[2]
                /\ \A k \in 0..(N \div 2 - 1) :
                       k # k0 => getMagnitude(spectrum, N, k)
                                     < getMagnitude(spectrum, N, k0)

\* the threshold of the peak search over the window held: mean + 0.5 * stddev
\* of the accelerometer magnitude
CrossingThreshold ==
    LET mean == MeanOf(AccelMagnitudes, 0, WindowLen)
    IN  mean + RDiv(Sqrt(VarOf(AccelMagnitudes, 0, WindowLen, mean)) * StepK, One)

\* the indices i with 0 < i < N-1 where the magnitude is above the threshold,
\* above both neighbours, and the sample before is at or below the threshold
UpwardCrossings ==
    { i \in 1..(WindowLen - 2) :
        /\ At(AccelMagnitudes, i) > CrossingThreshold
        /\ At(AccelMagnitudes, i) > At(AccelMagnitudes, i - 1)
        /\ At(AccelMagnitudes, i) > At(AccelMagnitudes, i + 1)
        /\ At(AccelMagnitudes, i - 1) <= CrossingThreshold }

\* C11: the steps counted in a window are exactly the indices i with
\* 0 < i < N-1 where mag[i] is above T = mean + 0.5 * stddev and above both
\* neighbours and mag[i-1] is at or below T, at i = 1 as anywhere else; the
\* cadence left by the call is that count over three seconds.
C11_StepsAreUpwardCrossings ==
    pc = "called" =>
        cadence = RDiv(Cardinality(UpwardCrossings) * One, GaitSeconds)

\* C12: the cadence left by a call is the number of steps found in the
\* window over the duration of the window, steps / (N / 52), for a window of
\* any length N and not only one of 156 samples.
C12_CadenceOverWindowDuration ==
    pc = "called" =>
        cadence = RDiv(detectSteps(AccelMagnitudes, WindowLen) * One * SampleHz,
                       WindowLen)

\* sample i (counted from 0) of the window held lies in the middle third or
\* among the N mod 3 samples after the last third
OutsideThirds(i) ==
    LET n == WindowLen \div 3
    IN  (n <= i /\ i < 2 * n) \/ 3 * n <= i

\* the array a with its samples outside the first and the last third set to v
Overwritten(a, v) ==
    [i \in 1..WindowLen |-> IF OutsideThirds(i - 1) THEN v ELSE a[i]]

\* the window held with the accelerometer set to a and the gyroscope to g
\* outside the first and the last third
OverwrittenMemory(a, g) ==
    [ accelX |-> Overwritten(accelX, a), accelY |-> Overwritten(accelY, a),
      accelZ |-> Overwritten(accelZ, a), gyroX |-> Overwritten(gyroX, g),
      gyroY |-> Overwritten(gyroY, g), gyroZ |-> Overwritten(gyroZ, g) ]

\* C13: the FOG rule reads the accelerometer over [0, N/3) and the
\* accelerometer and the gyroscope over [2(N/3), 3(N/3)), N/3 rounded down:
\* with the same cadence, its verdict is the one it gives for the window
\* with any other samples in the middle third and after the last third.
C13_ThirdsOnly ==
    pc = "called" =>
        \A a \in { 0, 1300 }, g \in { 0, 300 } :
            results.fogDetected
                = detectFOG(OverwrittenMemory(a, g), BufferPtrs.accelX,
                            BufferPtrs.accelY, BufferPtrs.accelZ,
                            BufferPtrs.gyroX, BufferPtrs.gyroY,
                            BufferPtrs.gyroZ, WindowLen, cadence)

\* freezing is reported for a window of seven samples whose middle third
\* varies and whose last sample is not the level of the last third
C13_Witness ==
    /\ pc = "called"
    /\ WindowLen \in StrideLens
    /\ results.fogDetected
    /\ accelZ[3] # accelZ[4]
    /\ accelZ[7] # accelZ[6]

\* the population variance of the accelerometer magnitude over the samples
\* N/2 (rounded down) to N-1 of the window held
LastHalfVariance ==
    LET half == WindowLen \div 2
        n == WindowLen - half
    IN  VarOf(AccelMagnitudes, half, n, MeanOf(AccelMagnitudes, half, n))

BandBins(minHz, maxHz) ==
    { k \in 0..(WindowLen \div 2 - 1) :
        minHz * WindowLen <= k * SampleHz /\ k * SampleHz <= maxHz * WindowLen }

\* min(1, (0.8 * peak + 0.2 * mean) / 1.2) of the magnitudes of the bins S
\* of a spectrum, 0 when S is empty
BandEstimate(spectrum, S) ==
    IF S = {} THEN 0
    ELSE LET lo == CHOOSE k \in S : \A j \in S : k <= j
             mags == [j \in 1..Cardinality(S) |-> CAbs(spectrum[lo + j])] \o << >>
             peak == CHOOSE m \in { mags[j] : j \in DOMAIN mags } :
                         \A j \in DOMAIN mags : m >= mags[j]
             mean == RDiv(SumTo(mags, Len(mags)), Len(mags))
         IN  Min2(One, RDiv(RDiv(PeakWeight * peak + AvgWeight * mean, One) * One,
                            BandNorm))

\* the estimate of one centered axis of the window held
AxisEstimate(a, minHz, maxHz) ==
    CHOOSE e \in { BandEstimate(spectrum, BandBins(minHz, maxHz)) :
                     spectrum \in { process(Centered(a), WindowLen) } } : TRUE

\* C15: on one axis the band estimator selects the bins k of [0, N/2) with
\* f_min <= k * 52 / N <= f_max, limits included, returns 0 when there is
\* none and otherwise min(1, (0.8 * peak + 0.2 * mean) / 1.2) over exactly
\* those bins; the intensity reported is the largest of the three axes.
C15_BandEstimator ==
    pc = "called" =>
        /\ results.tremorIntensity
               = Max2(AxisEstimate(accelX, TremorMinHz, TremorMaxHz),
                      Max2(AxisEstimate(accelY, TremorMinHz, TremorMaxHz),
                           AxisEstimate(accelZ, TremorMinHz, TremorMaxHz)))
        /\ results.dyskinesiaIntensity
               = Max2(AxisEstimate(accelX, DyskMinHz, DyskMaxHz),
                      Max2(AxisEstimate(accelY, DyskMinHz, DyskMaxHz),
                           AxisEstimate(accelZ, DyskMinHz, DyskMaxHz)))

\* a window with bins at exactly 3 Hz and 5 Hz and a tremor intensity that
\* is neither 0 nor capped
C15_Witness ==
    /\ pc = "called"
    /\ WindowLen \in EdgeLens
    /\ BandBins(TremorMinHz, TremorMaxHz) = { 3, 4, 5 }
    /\ 0 < results.tremorIntensity /\ results.tremorIntensity < One

\* C16: sampleIndex stays within 0..WINDOW_SIZE; whenever the loop is about
\* to store a sample the index it stores at lies in [0, WINDOW_SIZE); and the
\* analysis is about to run only when exactly WINDOW_SIZE samples have been
\* stored since the one before, with sampleIndex back at 0 and no further
\* sample taken.
C16_IndexInBuffer ==
    /\ 0 <= sampleIndex /\ sampleIndex <= WINDOW_SIZE
    /\ pc = "poll" => sampleIndex < WINDOW_SIZE
    /\ pc = "analyze" =>
           /\ acquired = (nAnalyzed + 1) * WINDOW_SIZE
           /\ sampleIndex = 0

\* the loop is about to store the last sample of its second window
C16_Witness ==
    /\ pc = "poll"
    /\ sampleIndex = WINDOW_SIZE - 1
    /\ nAnalyzed = 1

\* C17: if the IMU cannot be initialised, main has returned -1 once past its
\* initialisation and has acquired, analysed and published nothing.
C17_NoSensorNoAcquisition ==
    (pc # "boot" /\ ~sensorReady) =>
        /\ pc = "exit"
        /\ acquired = 0 /\ nAnalyzed = 0 /\ nPublished = 0

\* the read of this pass of the loop fails: the sensor was never initialised
\* or its I2C transfers fail
ReadFails == ~sensorReady \/ I2cFails(scenario, acquired)

\* C18: a pass of the loop whose read fails appends no sample: sampleIndex
\* stays where it was and no element of the six buffers is written.
C18_FailedReadAppendsNothing ==
    [][(pc = "poll" /\ acquired' # acquired /\ ReadFails)
           => (sampleIndex' = sampleIndex /\ buffers' = buffers)]_vars

IntensityOf(bytes, c) ==
    CASE c = "tremor" -> bytes.tremorIntensityByte
      [] c = "dyskinesia" -> bytes.dyskinesiaIntensityByte
      [] c = "fog" -> bytes.fogIntensityByte

\* the six bytes are those of the results r: 1 or 0 for each status,
\* floor(255 * intensity) within 0..255 for each intensity
BytesOf(bytes, r) ==
    /\ bytes.tremorStatus = (IF r.tremorDetected THEN 1 ELSE 0)
    /\ bytes.dyskinesiaStatus = (IF r.dyskinesiaDetected THEN 1 ELSE 0)
    /\ bytes.fogStatus = (IF r.fogDetected THEN 1 ELSE 0)
    /\ bytes.tremorIntensityByte = (255 * r.tremorIntensity) \div One
    /\ bytes.dyskinesiaIntensityByte = (255 * r.dyskinesiaIntensity) \div One
    /\ bytes.fogIntensityByte = (255 * r.fogIntensity) \div One
    /\ \A c \in Characteristics : IntensityOf(bytes, c) \in 0..255

\* C20: after updateCharacteristics the status bytes are 1 or 0, the
\* intensity bytes are floor(255 * intensity) within 0..255, and, BLE being
\* initialised, each characteristic of the GATT server holds the status byte
\* and the intensity byte of its symptom, unless its write failed and left
\* it as it was.
C20_StatusAndIntensityPublished ==
    [][(pc = "publish" /\ pc' = "yield")
           => /\ BytesOf(bleBytes', results)
              /\ bleInitialized
                     => \A c \in Characteristics :
                            \/ gatt'[c] = gatt[c]
                            \/ gatt'[c] = << StatusOf(bleBytes', c),
                                             IntensityOf(bleBytes', c) >>]_vars

\* the first window the loop fills under scenario sc with a working sensor
FirstWindowOf(sc) ==
    /\ nAnalyzed = 1
    /\ \A i \in 1..WINDOW_SIZE :
           LET m == Motion(sc, i - 1)
           IN  /\ accelX[i] = m.accelX /\ accelY[i] = m.accelY
               /\ accelZ[i] = m.accelZ
               /\ gyroX[i] = m.gyroX /\ gyroY[i] = m.gyroY
               /\ gyroZ[i] = m.gyroZ

\* C21: for the window of 156 samples of a walk that freezes (a 2 Hz
\* oscillation of 0.5 g on X and Y for i < 78, then 0.01 g, 1 g on Z, no
\* rotation) analyze returns fogDetected with fogIntensity >= 0.9 and
\* neither tremor nor dyskinesia.
C21_WalkThenFreeze ==
    (pc = "publish" /\ FirstWindowOf(FreezeScenario)) =>
        /\ results.fogDetected
        /\ results.fogIntensity * 10 >= 9 * One
        /\ ~results.tremorDetected
        /\ ~results.dyskinesiaDetected

\* C22: for the window of 156 samples of a 4 Hz tremor (0.2 g on X and Y,
\* 1 g on Z, no rotation) analyze returns tremorDetected with
\* tremorIntensity >= 0.3 and neither dyskinesia nor freezing.
C22_PureTremor ==
    (pc = "publish" /\ FirstWindowOf(TremorScenario)) =>
        /\ results.tremorDetected
        /\ results.tremorIntensity * 10 >= 3 * One
        /\ ~results.dyskinesiaDetected
        /\ ~results.fogDetected

\* the constant vectors (cx, cy, cz) added to the accelerometer
DCShifts == { << 70, -30, 500 >> }

\* an array with c added to every element
Shifted(a, c) == [i \in 1..Len(a) |-> a[i] + c] \o << >>

\* the window held with c added to every accelerometer sample
ShiftedMemory(c) ==
    [ accelX |-> Shifted(accelX, c[1]), accelY |-> Shifted(accelY, c[2]),
      accelZ |-> Shifted(accelZ, c[3]),
      gyroX |-> gyroX, gyroY |-> gyroY, gyroZ |-> gyroZ ]

PowersOfTwo == { 2^e : e \in 0..8 }

\* the least power of two that is at least n
LeastPowerOfTwo(n) ==
    CHOOSE m \in PowersOfTwo :
        m >= n /\ \A q \in PowersOfTwo : q >= n => m <= q

\* a real array extended with zeros to length m
ZeroExtended(a, m) == a \o [i \in 1..(m - Len(a)) |-> 0]

\* the transform of the centered X axis of the window held
SpectrumX == process(Centered(accelX), WindowLen)

\* C24: for an input of N >= 1 samples the FFT output has length N.  When N
\* is not a power of two the input is extended with zeros to the next power
\* of two M, the length-M transform is computed, and output bin k, for
\* 0 <= k < N, is bin k of that transform; when N is a power of two, nothing
\* is padded.
C24_PaddedTransform ==
    (pc = "called" /\ WindowLen >= 1) =>
        LET N == WindowLen
            M == LeastPowerOfTwo(N)
        IN  /\ Len(SpectrumX) = N
            /\ SpectrumX
                   = SubSeq(process(ZeroExtended(Centered(accelX), M), M), 1, N)
            /\ (NextPow2(N) # N) <=> (N \notin PowersOfTwo)

\* an oscillation on X over a number of samples that is not a power of two,
\* extended by more than its own length when 52 samples become 64
C24_Witness ==
    /\ pc = "called"
    /\ WindowLen \in EdgeLens
    /\ LeastPowerOfTwo(WindowLen) = 64
    /\ \E k \in 1..WindowLen : CAbs(SpectrumX[k]) > One

----------------------------------------------------------------------------
(* Properties of the driver (specification SpecDriver)                      *)

\* the accesses the current object made, in order
OwnAccesses == SelectSeq(bus, LAMBDA a : a.obj = drivers)

\* access i of the bus follows, within its object, a WHO_AM_I read at the
\* default address that failed
AfterFailedDefaultRead(i) ==
    \E j \in 1..(i - 1) :
        /\ bus[j].obj = bus[i].obj
        /\ bus[j].reg = LSM6DSL_WHO_AM_I
        /\ bus[j].address = LSM6DSL_I2C_ADDRESS
        /\ ~bus[j].ok

\* C26: init() returns true only if a WHO_AM_I read succeeded with the value
\* 0x6A and the writes of CTRL1_XL, CTRL2_G and CTRL3_C then all succeeded,
\* in that order.  The alternate I2C address is tried exactly when the
\* WHO_AM_I read at the default address fails (not when it returns a wrong
\* value), and once selected it is used for every later access.
C26_InitSucceedsOnlyConfigured ==
    /\ (pc \in { "returned", "ready" } /\ initOk) =>
           \E k \in 1..Len(OwnAccesses) :
               LET a == OwnAccesses
               IN  /\ Len(a) >= k + 3
                   /\ a[k].op = "read" /\ a[k].reg = LSM6DSL_WHO_AM_I
                   /\ a[k].ok /\ a[k].value = WhoAmIExpected
                   /\ [i \in 1..3 |-> << a[k + i].op, a[k + i].reg, a[k + i].ok >>]
                          = << << "write", LSM6DSL_CTRL1_XL, TRUE >>,
                               << "write", LSM6DSL_CTRL2_G, TRUE >>,
                               << "write", LSM6DSL_CTRL3_C, TRUE >> >>
    /\ \A i \in DOMAIN bus :
           bus[i].address = IF AfterFailedDefaultRead(i)
                            THEN LSM6DSL_I2C_ADDRESS_ALT
                            ELSE LSM6DSL_I2C_ADDRESS

\* the second object, after the first answered with a wrong value at the
\* default address, fell back to the alternate address, was initialised
\* there and has been read since
C26_Witness ==
    /\ pc = "ready"
    /\ initOk
    /\ drivers = MaxDrivers
    /\ address = LSM6DSL_I2C_ADDRESS_ALT
    /\ \E i \in DOMAIN bus :
           /\ bus[i].obj = 1 /\ bus[i].ok /\ bus[i].value # WhoAmIExpected
    /\ bus[Len(bus)].reg = LSM6DSL_OUTX_L_XL

----------------------------------------------------------------------------
(* Properties of the test program (specification SpecTest)                  *)

\* the largest noise read() adds to a simulated value
ReadNoise == 10

\* the window of a test with a generated waveform has been collected and is
\* about to be passed to analyze
WindowCollected ==
    /\ pc = "collect"
    /\ sampleIndex = WINDOW_SIZE
    /\ Test \in 2..NumTests

\* the sample stored at position i of the window is, up to the noise of a
\* read, the value v
SampleIs(i, v) ==
    /\ AbsInt(accelX[i] - v.accelX) <= ReadNoise
    /\ AbsInt(accelY[i] - v.accelY) <= ReadNoise
    /\ AbsInt(accelZ[i] - v.accelZ) <= ReadNoise

\* C25: in the test program the 156-sample window analysed for a scenario
\* is the waveform generated for it: the values written by the successive
\* setSimulationData calls of generateTremorData, generateDyskinesiaData or
\* generateFOGData appear, in order, as the successive samples of the window
\* collected with read() and passed to analyze.
C25_WindowIsWaveform ==
    WindowCollected =>
        \E first \in 0..(Len(written) - WINDOW_SIZE) :
            \A i \in 1..WINDOW_SIZE : SampleIs(i, written[first + i])

\* an access << length, index >> lies inside its buffer
InBounds(a) == 0 <= a[2] /\ a[2] < a[1]

\* C27: for every window length N >= 1 every array access of analyze and
\* its helpers is within bounds: detectSteps reads mag[i-1..i+1] only for
\* 1 <= i <= N-2, the last FOG segment ends at 3 * (N / 3) <= N,
\* calculateFOGIntensity reads indices below N, the band estimator reads
\* bins below N / 2, and fft reads and writes below each buffer's length.
C27_AccessesInBounds ==
    pc = "loaded" =>
        \A n \in 1..WindowLen :
            /\ \A a \in analyzeAccesses(n) : InBounds(a)
            /\ \A a \in detectFOGAccesses(n) : a[1] = n => a[2] < 3 * (n \div 3)
            /\ \A i \in 1..(n - 2) :
                   { << n, i - 1 >>, << n, i + 1 >> } \subseteq detectStepsAccesses(n)

\* a window of 52 samples is about to be analysed: every length from 1 to
\* 52 is covered, the lengths below three, whose thirds are empty, and the
\* lengths fft pads among them
C27_Witness ==
    /\ pc = "loaded"
    /\ WindowLen \in EdgeLens
    /\ detectFOGAccesses(2) = {}
    /\ << 64, 63 >> \in analyzeAccesses(WindowLen)
    /\ << WindowLen, WindowLen - 1 >> \in detectStepsAccesses(WindowLen)

----------------------------------------------------------------------------
(* Properties of the bands at the window of main (specification Spec)        *)

\* the bins the band loop of calculateIntensity selects in a window of
\* WINDOW_SIZE samples for the band from minHz to maxHz
SelectedBins(minHz, maxHz) ==
    { k \in 0..(WINDOW_SIZE \div 2 - 1) : InBand(k, WINDOW_SIZE, minHz, maxHz) }

\* C28: with N = 156 samples at 52 Hz the background band is bins 0..6, the
\* tremor band bins 9..15 and the dyskinesia band bins 15..21; bin 15 is in
\* both the tremor and the dyskinesia band, and bins 7 and 8 are in no band.
C28_BandsOfMainWindow ==
    pc = "publish" =>
        /\ SelectedBins(BgMinHz, BgMaxHz) = 0..6
        /\ SelectedBins(TremorMinHz, TremorMaxHz) = 9..15
        /\ SelectedBins(DyskMinHz, DyskMaxHz) = 15..21
        /\ 15 \in SelectedBins(TremorMinHz, TremorMaxHz)
                  \cap SelectedBins(DyskMinHz, DyskMaxHz)
        /\ { 7, 8 } \cap (SelectedBins(BgMinHz, BgMaxHz)
                          \cup SelectedBins(TremorMinHz, TremorMaxHz)
                          \cup SelectedBins(DyskMinHz, DyskMaxHz)) = {}

\* main has analysed a window of 156 samples in which the tremor band held
\* energy
C28_Witness ==
    /\ pc = "publish"
    /\ Len(accelX) = WINDOW_SIZE
    /\ WINDOW_SIZE \div 2 = 78
    /\ results.tremorIntensity > 0

----------------------------------------------------------------------------
(* Further properties of analyze (specification SpecDet)                    *)

----------------------------------------------------------------------------
(* Properties of the calls of fft (specification SpecFftLive)               *)

\* log2 of a power of two
Log2(m) == CHOOSE e \in 0..8 : 2^e = m

\* the buffers owned by the calls under way
Owned == UNION { frames[i].bufs : i \in DOMAIN frames }

\* C30: fft(x, n) terminates for every n >= 0; an n that is not a power of
\* two causes exactly one padding step; the recursion depth never exceeds
\* log2(M) + 2, M being the power of two n is padded to; and every buffer
\* allocated (padded, even, odd) is freed before the call that allocated it
\* returns.
C30_FftTerminatesAndFrees ==
    /\ [](Len(frames) <= Log2(LeastPowerOfTwo(rootN)) + 2)
    /\ [](live = Owned)
    /\ [](pc = "returned" =>
              /\ live = {}
              /\ padSteps = IF rootN \in PowersOfTwo \cup { 0 } THEN 0 ELSE 1)
    /\ (pc = "fft") ~> (pc = "returned")

\* fft(x, 12) has returned: it padded once, to 16, and allocated the padded
\* buffer and two halves at each of the fifteen splits
C30_Witness ==
    /\ pc = "returned"
    /\ rootN = 12
    /\ padSteps = 1
    /\ allocated = 31
    /\ live = {}

=============================================================================
